---- MODULE Spec2Model ----
(***************************************************************************)
(* PyElectron IPC stack: JSON-RPC protocol engine (ipc/protocol.py), the   *)
(* security layer (ipc/security.py), the transport (ipc/transport.py) and  *)
(* the IPC manager (ipc/manager.py), as state machines.                    *)
(*                                                                         *)
(* JSON values are written as tokens (strings).  NULL is Python None /     *)
(* JSON null, ABSENT marks a key that is not in a JSON object.             *)
(***************************************************************************)
EXTENDS Integers, Sequences, FiniteSets, TLC

VARIABLES
    \* ---- JSONRPCProtocol (one engine, specification SpecProto)
    methods,            \* self.methods: name -> handler
    middleware,         \* self.middleware: sequence of middleware
    pending_requests,   \* self.pending_requests: request id -> future (a call slot)
    calls,              \* call_method invocations: position, request id, future
    uuid_count,         \* number of uuid4() values drawn so far
    last,               \* the last process_message: input, output, what it invoked
    \* ---- RateLimiter (specification SpecRL; the manager's security layer has one)
    rl_max,             \* self.max_requests
    rl_window,          \* self.window_seconds
    requests,           \* self.requests: client id -> deque of timestamps
    now,                \* time.time()
    rl_log,             \* every check_rate_limit call so far: client, time, result
    \* ---- IPCManager (specification SpecMgr): a server manager, a client manager
    \* whose protocol engine and rate limiter are the variables above
    srv,                \* the server manager: is_server, is_connected, transport, methods
    cli,                \* the client manager: is_connected, transport, server_task, security
    link,               \* the client's connection: its peer, and what the peer did to it
    mcall,              \* the client's IPCManager.call_method invocation
    mlast,              \* the last _handle_message of the client manager
    seen,               \* ids of the responses the client manager has received
    \* ---- one IPCManager through its life (specification SpecLife); its protocol
    \* engine is the first group of variables
    mgr,                \* is_server, is_connected, transport, server_task, cleanup_task, connections
    transports,         \* every transport object created so far
    tasks,              \* every background task created so far
    lifelog,            \* the operations called on the manager and how each ended
    \* ---- the client receive loop on one connection (specification SpecLoop)
    inbox,              \* frames that have arrived on the connection and are not read yet
    handling,           \* the _handle_message invocations in progress
    outbox,             \* frames read so far, and response frames written so far
    \* ---- ServiceRegistry and MessageRouter (specification SpecRouter)
    registry,           \* registry.global_methods: name -> MethodInfo
    request_middleware, \* router.request_middleware
    response_middleware, \* router.response_middleware
    routed,             \* the last route_message: arguments, outcome, what it invoked
    \* ---- UnixSocketTransport.receive on a byte stream (specification SpecRecv)
    stream,             \* buffer_size, and the bytes the peer has sent
    rx,                 \* the last receive(): bytes consumed and outcome
    \* ---- TokenAuthenticator (specification SpecToken)
    clock,              \* time.time()
    token,              \* the token generate_token returned
    verified,           \* the last verify_token: outcome
    \* ---- InputValidator.validate_json_structure (specification SpecDepth)
    doc,                \* the JSON value under validation and the configured limit
    checked,            \* the last validate_json_structure: outcome
    \* ---- ServiceRegistry with its services (specification SpecRegistry)
    svc,                \* registry.services and registry.global_methods
    reglog,             \* the last registry operation and the registry before it
    \* ---- send() and receive() over one byte stream (specifications SpecWire, SpecPoll)
    wire,               \* the bytes written by send(), how many have arrived, the payloads
    rd                  \* the reader: bytes consumed and what each receive() gave

protoVars == <<methods, middleware, pending_requests, calls, uuid_count, last>>
rlVars == <<rl_max, rl_window, requests, now, rl_log>>
mgrVars == <<srv, cli, link, mcall, mlast, seen>>
lifeVars == <<mgr, transports, tasks, lifelog>>
loopVars == <<inbox, handling, outbox>>
routerVars == <<registry, request_middleware, response_middleware, routed>>
recvVars == <<stream, rx>>
tokenVars == <<clock, token, verified>>
valVars == <<doc, checked>>
regVars == <<svc, reglog>>
wireVars == <<wire, rd>>
moreVars == <<valVars, regVars, wireVars>>
extVars == <<lifeVars, loopVars, routerVars, recvVars, tokenVars, moreVars>>
vars == <<protoVars, rlVars, mgrVars, extVars>>

(***************************************************************************)
(* Bounds of the model                                                     *)
(***************************************************************************)
MaxCalls == 2          \* call_method invocations followed
MaxMiddleware == 1     \* add_middleware calls followed
MaxTime == 3           \* clock values followed by SpecRL: 0 .. MaxTime
MaxChecks == 4         \* check_rate_limit calls followed by SpecRL
TickSeconds == 61      \* SpecMgr: seconds between two readings of the clock
MaxTransports == 2     \* transports one manager creates
MaxFrames == 3         \* frames that arrive on one connection
MaxBufferSize == 2   \* the largest buffer_size of a transport
MaxStream == 2       \* frames a peer writes to one stream
TicksPerSecond == 2  \* clock readings told apart within one second
MaxClock == 6        \* the last clock reading (in ticks)
MaxDepth == 3        \* the largest max_object_depth configured

(***************************************************************************)
(* JSON tokens                                                             *)
(***************************************************************************)
NULL == "null"
ABSENT == "absent"

\* request ids a peer or a caller may choose (int or str), 0 being falsy
RequestIds == {"0", "abc"}
\* ids made by str(uuid.uuid4()): the n-th draw
Uuid(n) == "uuid-" \o ToString(n)

\* method field values: strings, and one that is not a string
MethodNames == {"echo", "test", "boom"}
NonStringMethod == "123"
IsStr(v) == v \notin {NULL, ABSENT, NonStringMethod}

\* params field values: None, list, dict, and one that is neither
Params == {NULL, "[hi]", "{x:hi}", "5"}
IsList(p) == p \in {"[]", "[hi]", "[5,3]", "[deep]", "[big]"}
IsDict(p) == p \in {"{x:hi}", "{a:5,b:3}", "{__class__:1}"}

(***************************************************************************)
(* Handlers and middleware: the callables the application registers.       *)
(* A call either returns a value or raises.                                *)
(***************************************************************************)
Returned(v) == [ok |-> TRUE, value |-> v, exc |-> "none"]
Raised(e) == [ok |-> FALSE, value |-> NULL, exc |-> e]
NotCalled == [ok |-> FALSE, value |-> NULL, exc |-> "not called"]

\* test_handler(): returns "success"
\* echo(x): returns its single argument
\* failing(): raises; validating(): raises ValidationError
HandlerCall(handler, params) ==
    CASE handler = "test_handler" ->
            IF params \in {NULL, "[]"} THEN Returned("success") ELSE Raised("TypeError")
      [] handler = "echo_handler" ->
            IF params \in {"[hi]", "{x:hi}"} THEN Returned("hi")
            ELSE IF params = "[deep]" THEN Returned("deep")
            ELSE IF params = "[big]" THEN Returned("big")
            ELSE Raised("TypeError")
      [] handler = "returns_none" ->
            IF params \in {NULL, "[]"} THEN Returned(NULL) ELSE Raised("TypeError")
      [] handler = "failing_handler" -> Raised("Exception")
      [] handler = "validating_handler" -> Raised("ValidationError")
      [] OTHER -> Raised("TypeError")

\* the handler each method name is registered with
HandlerOf(name) ==
    CASE name = "echo" -> "echo_handler"
      [] name = "test" -> "test_handler"
      [] name = "boom" -> "failing_handler"
      [] OTHER -> "returns_none"

Middlewares == {"mw_pass", "mw_raise"}
MiddlewareRaises(mw) == mw = "mw_raise"

(***************************************************************************)
(* Messages.  A dataclass instance (RPCRequest, ...) is serialized by      *)
(* _serialize_message into a JSON object; the JSON text is written as the  *)
(* record of its keys, ABSENT for a key the object does not hold.          *)
(***************************************************************************)
NoError == [code |-> 0, message |-> ABSENT, data |-> ABSENT]

RPCErrorCode(name) ==
    CASE name = "PARSE_ERROR" -> -32700
      [] name = "INVALID_REQUEST" -> -32600
      [] name = "METHOD_NOT_FOUND" -> -32601
      [] name = "INVALID_PARAMS" -> -32602
      [] name = "INTERNAL_ERROR" -> -32603
      [] name = "PERMISSION_DENIED" -> -32000
      [] name = "TIMEOUT" -> -32001
      [] OTHER -> -32002

RPCRequest(method, params, id) ==
    [cls |-> "RPCRequest", id |-> id, method |-> method, params |-> params,
     result |-> NULL, error |-> NoError]
RPCNotification(method, params) ==
    [cls |-> "RPCNotification", id |-> NULL, method |-> method, params |-> params,
     result |-> NULL, error |-> NoError]
RPCResponse(id, result) ==
    [cls |-> "RPCResponse", id |-> id, method |-> NULL, params |-> NULL,
     result |-> result, error |-> NoError]
RPCErrorResponse(id, error) ==
    [cls |-> "RPCErrorResponse", id |-> id, method |-> NULL, params |-> NULL,
     result |-> NULL, error |-> error]

\* a JSON text: kind "dict" is a JSON object with the keys below,
\* "nondict" a JSON array, "garbage" a text json.loads rejects
Json(jsonrpc, id, method, params, result, error) ==
    [kind |-> "dict", jsonrpc |-> jsonrpc, id |-> id, method |-> method,
     params |-> params, result |-> result, error |-> error]
Garbage == [kind |-> "garbage", jsonrpc |-> ABSENT, id |-> ABSENT, method |-> ABSENT,
            params |-> ABSENT, result |-> ABSENT, error |-> NoError]
NonDict == [Garbage EXCEPT !.kind = "nondict"]
\* a text of brackets opened deeper than the parser's recursion limit and not
\* closed: json.loads raises RecursionError, which is no JSONDecodeError
Overnested == [Garbage EXCEPT !.kind = "overnested"]
\* process_message returned None
NoResponse == [Garbage EXCEPT !.kind = "none"]

_serialize_message(message) ==
    IF message.cls = "RPCNotification"
    THEN Json("2.0", ABSENT, message.method,
              IF message.params # NULL THEN message.params ELSE ABSENT,
              ABSENT, NoError)
    ELSE Json("2.0", message.id,
              IF message.cls = "RPCRequest" THEN message.method ELSE ABSENT,
              IF message.cls = "RPCRequest" /\ message.params # NULL
                  THEN message.params ELSE ABSENT,
              IF message.cls = "RPCResponse" THEN message.result ELSE ABSENT,
              IF message.cls = "RPCErrorResponse" THEN message.error ELSE NoError)

\* request_id None: the id is str(uuid.uuid4()), the n-th draw
create_request(method, params, request_id, n) ==
    _serialize_message(RPCRequest(method, params,
        IF request_id = NULL THEN Uuid(n) ELSE request_id))
create_notification(method, params) ==
    _serialize_message(RPCNotification(method, params))
create_response(request_id, result) ==
    _serialize_message(RPCResponse(request_id, result))
create_error_response(request_id, code, message, data) ==
    _serialize_message(RPCErrorResponse(request_id,
        [code |-> RPCErrorCode(code), message |-> message, data |-> data]))
_invalid_request_error(request_id) ==
    create_error_response(request_id, "INVALID_REQUEST", "Invalid request", NULL)

\* dict.get(key): None for a missing key
Get(data, key) ==
    LET v == CASE key = "id" -> data.id
               [] key = "method" -> data.method
               [] key = "params" -> data.params
               [] key = "result" -> data.result
               [] OTHER -> data.jsonrpc
    IN IF v = ABSENT THEN NULL ELSE v
\* key in dict
Has(data, key) ==
    CASE key = "id" -> data.id # ABSENT
      [] key = "method" -> data.method # ABSENT
      [] key = "params" -> data.params # ABSENT
      [] key = "result" -> data.result # ABSENT
      [] key = "error" -> data.error # NoError
      [] OTHER -> data.jsonrpc # ABSENT

(***************************************************************************)
(* JSONRPCProtocol: inbound messages                                       *)
(***************************************************************************)
\* ReplyTo with the id tested for truth (`if request_id:`) instead of
\* `is not None`: the integer id 0 is falsy
ReplyTo_truthy(request_id, response) ==
    IF request_id \notin {NULL, "0"} THEN response ELSE NoResponse

\* ReplyTo that answers whether or not the request carried an id
ReplyTo_always(request_id, response) == response

\* a response is produced only when the request carried an id
ReplyTo(request_id, response) == IF request_id # NULL THEN response ELSE NoResponse

Outcome(response, invoked, hres, mwcalls) ==
    [response |-> response, invoked |-> invoked, hres |-> hres, mwcalls |-> mwcalls]

\* index of the first middleware that raises, 0 when none does
RECURSIVE FirstRaising(_, _)
FirstRaising(mws, i) ==
    IF i > Len(mws) THEN 0
    ELSE IF MiddlewareRaises(mws[i]) THEN i ELSE FirstRaising(mws, i + 1)

_handle_request(meths, mws, data) ==
    LET method_name == Get(data, "method")
        params == Get(data, "params")
        request_id == Get(data, "id")
        stop == FirstRaising(mws, 1)
        hres == HandlerCall(meths[method_name], params)
    IN  IF ~IsStr(method_name)
        THEN Outcome(_invalid_request_error(request_id), FALSE, NotCalled, 0)
        ELSE IF method_name \notin DOMAIN meths
        THEN Outcome(ReplyTo(request_id,
                        create_error_response(request_id, "METHOD_NOT_FOUND",
                            "Method not found: " \o method_name, NULL)),
                     FALSE, NotCalled, 0)
        ELSE IF stop # 0
        THEN Outcome(ReplyTo(request_id,
                        create_error_response(request_id, "INTERNAL_ERROR",
                            "Method execution error: middleware", NULL)),
                     FALSE, NotCalled, stop)
        ELSE IF ~(params = NULL \/ IsList(params) \/ IsDict(params))
        THEN Outcome(ReplyTo(request_id,
                        create_error_response(request_id, "INVALID_PARAMS",
                            "Invalid parameters", NULL)),
                     FALSE, NotCalled, Len(mws))
        ELSE IF hres.ok
        THEN Outcome(ReplyTo(request_id, create_response(request_id, hres.value)),
                     TRUE, hres, Len(mws))
        ELSE IF hres.exc = "ValidationError"
        THEN Outcome(ReplyTo(request_id,
                        create_error_response(request_id, "INVALID_PARAMS",
                            "ValidationError", NULL)),
                     TRUE, hres, Len(mws))
        ELSE Outcome(ReplyTo(request_id,
                        create_error_response(request_id, "INTERNAL_ERROR",
                            "Method execution error: " \o hres.exc, NULL)),
                     TRUE, hres, Len(mws))

\* Pop that reads the entry and leaves it in the table (dict.get for dict.pop)
Pop_keeps(table, key) == table

\* dict.pop(key, None)
Pop(table, key) == [k \in DOMAIN table \ {key} |-> table[k]]

\* an RPCError built with the default code whatever the response holds
RPCErrorOf_default(error_data) ==
    [message |-> IF error_data.message = ABSENT THEN "Unknown error" ELSE error_data.message,
     code |-> -32603,
     data |-> IF error_data.data = ABSENT THEN NULL ELSE error_data.data]

\* RPCError(error_data.get('message', 'Unknown error'), error_data.get('code', -1),
\*          error_data.get('data'))
RPCErrorOf(error_data) ==
    [message |-> IF error_data.message = ABSENT THEN "Unknown error" ELSE error_data.message,
     code |-> error_data.code,
     data |-> IF error_data.data = ABSENT THEN NULL ELSE error_data.data]

\* the outcome of _handle_response: the table and the futures afterwards, and
\* whether it raised (set_result / set_exception on a future that is done
\* raises InvalidStateError)
_handle_response(pend, cs, data) ==
    LET request_id == Get(data, "id")
        c == pend[request_id]
    IN  IF request_id \notin DOMAIN pend
        THEN [pend |-> pend, cs |-> cs, raised |-> FALSE]
        ELSE IF cs[c].fut # "pending"
        THEN [pend |-> Pop(pend, request_id), cs |-> cs, raised |-> TRUE]
        ELSE IF Has(data, "error")
        THEN [pend |-> Pop(pend, request_id),
              cs |-> [cs EXCEPT ![c].fut = "exception",
                                ![c].value = RPCErrorOf(data.error).message,
                                ![c].code = RPCErrorOf(data.error).code,
                                ![c].data = RPCErrorOf(data.error).data],
              raised |-> FALSE]
        ELSE [pend |-> Pop(pend, request_id),
              cs |-> [cs EXCEPT ![c].fut = "result", ![c].value = Get(data, "result")],
              raised |-> FALSE]

\* process_message on an engine in state (meths, mws, pend, cs): the response
\* (NoResponse for None), the engine's tables afterwards, what was invoked
process_message(meths, mws, pend, cs, message_data) ==
    LET rq == _handle_request(meths, mws, message_data)
        rs == _handle_response(pend, cs, message_data)
        Same(response) == [response |-> response, pend |-> pend, cs |-> cs,
                           invoked |-> FALSE, hres |-> NotCalled, mwcalls |-> 0]
    IN  IF message_data.kind = "garbage"
        THEN Same(create_error_response(NULL, "PARSE_ERROR", "Parse error", NULL))
        ELSE IF message_data.kind = "overnested"
        THEN Same(create_error_response(NULL, "INTERNAL_ERROR", "Internal error",
                                        "RecursionError"))
        ELSE IF message_data.kind # "dict"
        THEN Same(_invalid_request_error(NULL))
        ELSE IF Get(message_data, "jsonrpc") # "2.0"
        THEN Same(_invalid_request_error(Get(message_data, "id")))
        ELSE IF Has(message_data, "method")
        THEN [response |-> rq.response, pend |-> pend, cs |-> cs,
              invoked |-> rq.invoked, hres |-> rq.hres, mwcalls |-> rq.mwcalls]
        ELSE IF Has(message_data, "result") \/ Has(message_data, "error")
        THEN [response |-> IF rs.raised
                           THEN create_error_response(NULL, "INTERNAL_ERROR",
                                    "Internal error", "InvalidStateError")
                           ELSE NoResponse,
              pend |-> rs.pend, cs |-> rs.cs,
              invoked |-> FALSE, hres |-> NotCalled, mwcalls |-> 0]
        ELSE Same(_invalid_request_error(Get(message_data, "id")))

(***************************************************************************)
(* RateLimiter (ipc/security.py)                                           *)
(***************************************************************************)
Clients == {"client1", "client2"}

\* Evict that never drops a timestamp
Evict_none(q, t, window) == q

\* while client_requests and client_requests[0] < now - window: popleft()
RECURSIVE Evict(_, _, _)
Evict(q, t, window) ==
    IF q # <<>> /\ Head(q) < t - window THEN Evict(Tail(q), t, window) ELSE q

\* check_rate_limit with the limit tested by > instead of >=
check_rate_limit_gt(reqs, client_id, t, max_requests, window) ==
    LET q == Evict(IF client_id \in DOMAIN reqs THEN reqs[client_id] ELSE <<>>, t, window)
        ok == ~(Len(q) > max_requests)
    IN  [ok |-> ok,
         requests |-> [k \in DOMAIN reqs \cup {client_id} |->
                          IF k = client_id THEN (IF ok THEN Append(q, t) ELSE q)
                          ELSE reqs[k]]]

\* check_rate_limit that appends the timestamp whatever it returns
check_rate_limit_record_always(reqs, client_id, t, max_requests, window) ==
    LET q == Evict(IF client_id \in DOMAIN reqs THEN reqs[client_id] ELSE <<>>, t, window)
        ok == ~(Len(q) >= max_requests)
    IN  [ok |-> ok,
         requests |-> [k \in DOMAIN reqs \cup {client_id} |->
                          IF k = client_id THEN Append(q, t) ELSE reqs[k]]]

\* check_rate_limit(client_id) at time t: the result and self.requests afterwards
\* (the defaultdict makes the client's deque on first access)
check_rate_limit(reqs, client_id, t, max_requests, window) ==
    LET q == Evict(IF client_id \in DOMAIN reqs THEN reqs[client_id] ELSE <<>>, t, window)
        ok == ~(Len(q) >= max_requests)
    IN  [ok |-> ok,
         requests |-> [k \in DOMAIN reqs \cup {client_id} |->
                          IF k = client_id THEN (IF ok THEN Append(q, t) ELSE q)
                          ELSE reqs[k]]]

\* cleanup_old_entries that deletes every deque, expired or not
cleanup_old_entries_all(reqs, t, window) == [k \in {} |-> <<>>]

\* cleanup_old_entries() at time t: evict everywhere, delete the empty deques
cleanup_old_entries(reqs, t, window) ==
    [k \in {c \in DOMAIN reqs : Evict(reqs[c], t, window) # <<>>} |->
        Evict(reqs[k], t, window)]

\* the limiter's variables while no limiter is under study
RLIdle ==
    /\ rl_max = 0
    /\ rl_window = 0
    /\ requests = [k \in {} |-> <<>>]
    /\ now = 0
    /\ rl_log = <<>>

(***************************************************************************)
(* IPCSecurity (ipc/security.py): validation of an inbound message         *)
(***************************************************************************)
\* SecurityConfig; the fields not listed keep their defaults
\* (validate_json_structure True, max_string_length 10000, max_array_length 1000)
SecurityConfig(max_requests_per_minute, max_payload_size, require_auth_token, auth_token, blocked_methods, max_object_depth) ==
    [max_requests_per_minute |-> max_requests_per_minute,
     max_payload_size |-> max_payload_size,
     require_auth_token |-> require_auth_token, auth_token |-> auth_token,
     blocked_methods |-> blocked_methods, max_object_depth |-> max_object_depth]

\* the configurations a manager is constructed with: "none" is
\* IPCManager(name) (no security layer); "tight" turns authentication off and
\* sets small limits; "auth" requires a token and has the secret "secret";
\* "default" is SecurityConfig(max_requests_per_minute=2): a token is required
\* and no secret is set
SecurityNames == {"none", "tight", "auth", "default"}
ConfigOf(security) ==
    IF security = "auth"
    THEN SecurityConfig(2, 1048576, TRUE, "secret", {"boom"}, 10)
    ELSE IF security = "default"
    THEN SecurityConfig(2, 1048576, TRUE, NULL, {}, 10)
    ELSE SecurityConfig(2, 1024, FALSE, NULL, {"boom"}, 10)

\* len(message.encode('utf-8')) and the nesting depth of a message, by its params
PayloadBytes(data) == IF Get(data, "params") = "[big]" THEN 2000 ELSE 100
NestingDepth(data) == IF Get(data, "params") = "[deep]" THEN 12 ELSE 2

\* validate_method_name: block list, then the dangerous substrings
DangerousName(method) == method \in {"system.info", "exec", "eval", "open"}
validate_method_name(config, method) ==
    IF method \in config.blocked_methods \/ DangerousName(method)
    THEN "SecurityError" ELSE "ok"

\* validate_parameters: structure, then the dangerous keys of a dict
validate_parameters(config, data) ==
    IF NestingDepth(data) - 1 > config.max_object_depth THEN "SecurityError"
    ELSE IF Get(data, "params") = "{__class__:1}" THEN "SecurityError"
    ELSE "ok"

\* validate_incoming_message(message, client_id, auth_token) at time t: "ok" or
\* the exception raised, and the limiter's table afterwards
validate_incoming_message(config, reqs, t, message, client_id, auth_token) ==
    LET rl == check_rate_limit(reqs, client_id, t, config.max_requests_per_minute, 60)
        verdict ==
            IF ~rl.ok THEN "SecurityError"
            ELSE IF PayloadBytes(message) > config.max_payload_size THEN "SecurityError"
            ELSE IF message.kind = "garbage" THEN "ValidationError"
            ELSE IF message.kind = "overnested" THEN "RecursionError"
            ELSE IF NestingDepth(message) > config.max_object_depth THEN "SecurityError"
            ELSE IF config.require_auth_token /\ config.auth_token # NULL
                    /\ auth_token # config.auth_token
                 THEN "SecurityError"
            ELSE IF message.kind # "dict" THEN "ok"
            ELSE IF ~Has(message, "method") THEN "ok"
            ELSE IF ~IsStr(message.method) THEN "ValidationError"
            ELSE IF validate_method_name(config, message.method) # "ok" THEN "SecurityError"
            ELSE IF Has(message, "params") THEN validate_parameters(config, message)
            ELSE "ok"
    IN  [verdict |-> verdict, requests |-> rl.requests]

(***************************************************************************)
(* IPCManager._handle_message (ipc/manager.py)                             *)
(***************************************************************************)
Handled(validation, reqs, processed, pm, written) ==
    [validation |-> validation, requests |-> reqs, processed |-> processed,
     pm |-> pm, written |-> written]

NoTable == [k \in {} |-> 0]
NotProcessed == [response |-> NoResponse, pend |-> NoTable, cs |-> <<>>,
                 invoked |-> FALSE, hres |-> NotCalled, mwcalls |-> 0]

\* _handle_message that goes on to protocol.process_message after a security
\* rejection (the SecurityError caught around the validation alone)
_handle_message_unchecked(security, meths, mws, pend, cs, reqs, t, data, client_id) ==
    LET v == IF security # "none"
             THEN validate_incoming_message(ConfigOf(security), reqs, t, data, client_id, NULL)
             ELSE [verdict |-> IF data.kind = "garbage" THEN "JSONDecodeError"
                               ELSE IF data.kind = "overnested" THEN "RecursionError"
                               ELSE "ok",
                   requests |-> reqs]
        pm == process_message(meths, mws, pend, cs, data)
    IN  IF v.verdict \notin {"ok", "SecurityError"}
        THEN Handled(v.verdict, v.requests, FALSE, NotProcessed, 0)
        ELSE Handled(v.verdict, v.requests, TRUE, pm,
                     IF pm.response # NoResponse THEN 1 ELSE 0)

\* _handle_message(data, client_id) at time t on a manager whose transport can
\* send: the validation verdict, whether protocol.process_message ran and what
\* it returned, and the number of frames written (transport.send calls)
_handle_message(security, meths, mws, pend, cs, reqs, t, data, client_id) ==
    LET v == IF security # "none"
             THEN validate_incoming_message(ConfigOf(security), reqs, t, data, client_id, NULL)
             ELSE [verdict |-> IF data.kind = "garbage" THEN "JSONDecodeError"
                               ELSE IF data.kind = "overnested" THEN "RecursionError"
                               ELSE "ok",
                   requests |-> reqs]
        pm == process_message(meths, mws, pend, cs, data)
    IN  IF v.verdict # "ok"
        THEN Handled(v.verdict, v.requests, FALSE, NotProcessed, 0)
        ELSE Handled("ok", v.requests, TRUE, pm,
                     IF pm.response # NoResponse THEN 1 ELSE 0)

NoHandled == [raw |-> NoResponse, validation |-> "none", processed |-> FALSE,
              invoked |-> FALSE, response |-> NoResponse, written |-> 0]
\* loop_ended: whether _client_loop had ended when the call was made
IdleMCall == [pc |-> "idle", id |-> NULL, result |-> NULL, loop_ended |-> FALSE]

\* the manager's variables while no manager is under study
MgrIdle ==
    /\ srv = [is_server |-> FALSE, is_connected |-> FALSE, methods |-> {}, connections |-> {}]
    /\ cli = [is_connected |-> FALSE, transport |-> "none", server_task |-> "none",
              security |-> "none"]
    /\ link = [peer |-> "none", accepted |-> FALSE, peer_closed |-> FALSE]
    /\ mcall = IdleMCall
    /\ mlast = NoHandled
    /\ seen = {}

\* the other components while they are not under study
NoTransport == 0
NoTask == 0
NewManager == [is_server |-> FALSE, is_connected |-> FALSE, transport |-> NoTransport,
               server_task |-> NoTask, cleanup_task |-> NoTask, connections |-> {}]
NoOp == [op |-> "none", outcome |-> "none", before |-> NewManager, shut_before |-> FALSE,
         shut |-> FALSE, handlers |-> {}, invoked |-> {}]
LifeIdle ==
    /\ mgr = NewManager
    /\ transports = <<>>
    /\ tasks = <<>>
    /\ lifelog = NoOp
LoopIdle == inbox = <<>> /\ handling = {} /\ outbox = [read |-> <<>>, written |-> <<>>]
NoOutcome == [kind |-> "none", value |-> 0, exc |-> "none", code |-> 0, message |-> "",
              missing |-> {}]
NotRouted == [method_name |-> "", params |-> [shape |-> "null", items |-> <<>>, named |-> {}],
              context |-> [authenticated |-> "absent", permissions |-> {}],
              method_info |-> [handler |-> "none", requires_auth |-> FALSE, permissions |-> {}],
              request_middleware |-> <<>>, response_middleware |-> <<>>,
              result |-> NoOutcome, invoked |-> FALSE, mwcalls |-> 0, source |-> NoOutcome,
              trace |-> <<>>]
RouterIdle ==
    /\ registry = [k \in {} |-> 0]
    /\ request_middleware = <<>>
    /\ response_middleware = <<>>
    /\ routed = NotRouted
RecvIdle == stream = NULL /\ rx = NULL
TokenIdle == clock = 0 /\ token = NULL /\ verified = NULL
ValIdle == doc = NULL /\ checked = NULL
RegIdle == svc = NULL /\ reglog = NULL
WireIdle == wire = NULL /\ rd = NULL
MoreIdle == ValIdle /\ RegIdle /\ WireIdle
ExtIdle == LifeIdle /\ LoopIdle /\ RouterIdle /\ RecvIdle /\ TokenIdle /\ MoreIdle

(***************************************************************************)
(* SpecProto: one protocol engine, its registrations, and process_message  *)
(* on every kind of inbound text.                                          *)
(***************************************************************************)
Calls == 1 .. MaxCalls
IdleCall == [pc |-> "idle", id |-> NULL, fut |-> "none", value |-> NULL, code |-> 0,
             data |-> NULL, timed_out |-> FALSE]
Nothing == [raw |-> NoResponse, response |-> NoResponse, invoked |-> FALSE,
            hres |-> NotCalled, mwcalls |-> 0, unchanged |-> TRUE]

\* JSONRPCProtocol.__init__
ProtoInit ==
    /\ methods = [k \in {} |-> NULL]
    /\ middleware = <<>>
    /\ pending_requests = NoTable
    /\ calls = [c \in Calls |-> IdleCall]
    /\ uuid_count = 0
    /\ last = Nothing
    /\ RLIdle
    /\ MgrIdle
    /\ ExtIdle

\* texts a peer may send: requests and notifications as create_request and
\* create_notification build them, and envelopes no engine of ours builds
BuiltRequests ==
    {create_request(m, p, id, 0) :
        m \in MethodNames \cup {"nonexistent"}, p \in Params, id \in RequestIds}
BuiltNotifications ==
    {create_notification(m, p) : m \in MethodNames \cup {"nonexistent"}, p \in Params}
ForeignEnvelopes ==
    {Garbage, NonDict, Overnested,
     Json("2.0", ABSENT, ABSENT, ABSENT, ABSENT, NoError),
     Json("2.0", "abc", ABSENT, ABSENT, "hi", NoError),
     Json("2.0", NULL, ABSENT, ABSENT, ABSENT,
          [code |-> -32603, message |-> "Internal error", data |-> NULL])}
    \cup {Json(v, id, m, ABSENT, ABSENT, NoError) :
            v \in {"2.0", "1.0", ABSENT}, id \in {ABSENT, NULL, "0"},
            m \in {"test", NonStringMethod, NULL}}
InboundMessages == BuiltRequests \cup BuiltNotifications \cup ForeignEnvelopes

register_method(name, handler) ==
    /\ methods' = [k \in DOMAIN methods \cup {name} |->
                      IF k = name THEN handler ELSE methods[k]]
    /\ UNCHANGED <<middleware, pending_requests, calls, uuid_count, last>>

add_middleware(mw) ==
    /\ Len(middleware) < MaxMiddleware
    /\ middleware' = Append(middleware, mw)
    /\ UNCHANGED <<methods, pending_requests, calls, uuid_count, last>>

ProcessMessage(message_data) ==
    LET r == process_message(methods, middleware, pending_requests, calls, message_data)
    IN  /\ last' = [raw |-> message_data, response |-> r.response, invoked |-> r.invoked,
                    hres |-> r.hres, mwcalls |-> r.mwcalls,
                    unchanged |-> (r.pend = pending_requests /\ r.cs = calls)]
        /\ pending_requests' = r.pend
        /\ calls' = r.cs
        /\ UNCHANGED <<methods, middleware, uuid_count>>

RegisterStep ==
    /\ \E name \in MethodNames : register_method(name, HandlerOf(name))
    /\ UNCHANGED <<rlVars, mgrVars, extVars>>
MiddlewareStep ==
    /\ \E mw \in Middlewares : add_middleware(mw)
    /\ UNCHANGED <<rlVars, mgrVars, extVars>>
InboundStep ==
    /\ \E message_data \in InboundMessages : ProcessMessage(message_data)
    /\ UNCHANGED <<rlVars, mgrVars, extVars>>

ProtoNext == RegisterStep \/ MiddlewareStep \/ InboundStep
SpecProto == ProtoInit /\ [][ProtoNext]_vars

(***************************************************************************)
(* Claims on process_message (SpecProto)                                   *)
(***************************************************************************)
\* C1: round trip.  Whenever process_message is applied to the text built by
\* create_request(m, p, id) for a registered method m whose handler accepts p
\* (it is invoked and returns a value), the output is the success response
\* {"jsonrpc":"2.0","id":id,"result":<the handler's return value>}.
C1_RoundTrip ==
    \A m \in MethodNames, p \in Params, id \in RequestIds :
        ( /\ last.raw = create_request(m, p, id, 0)
          /\ last.invoked
          /\ HandlerCall(HandlerOf(m), p).ok )
        => last.response =
             [kind |-> "dict", jsonrpc |-> "2.0", id |-> id, method |-> ABSENT,
              params |-> ABSENT, result |-> HandlerCall(HandlerOf(m), p).value,
              error |-> NoError]

\* C1 witness: a request with the falsy id 0 for the registered "echo", params
\* ["hi"], was processed and answered with result "hi"
C1_Witness ==
    /\ last.raw = create_request("echo", "[hi]", "0", 0)
    /\ last.invoked
    /\ last.response.id = "0"
    /\ last.response.result = "hi"

\* C2 (as claimed): a JSON-RPC 2.0 envelope with a method key and no id key
\* never makes process_message return a response, whatever method and params
\* hold.
C2_NotificationNoResponse ==
    ( /\ last.raw.kind = "dict"
      /\ Get(last.raw, "jsonrpc") = "2.0"
      /\ Has(last.raw, "method")
      /\ ~Has(last.raw, "id") )
    => last.response = NoResponse

\* C2 (amended): a JSON-RPC 2.0 envelope whose method is a string and whose id
\* is missing (or null) never makes process_message return a response: method
\* registered or not, handler returning or raising, middleware raising, params
\* of any shape.
C2_StringMethodNoResponse ==
    ( /\ last.raw.kind = "dict"
      /\ Get(last.raw, "jsonrpc") = "2.0"
      /\ Has(last.raw, "method")
      /\ IsStr(last.raw.method)
      /\ Get(last.raw, "id") = NULL )
    => last.response = NoResponse

\* C2 witness: the notification built by create_notification for the registered
\* "boom", whose handler raised, was processed and nothing was returned
C2_Witness ==
    /\ last.raw = create_notification("boom", NULL)
    /\ last.invoked
    /\ ~last.hres.ok
    /\ last.response = NoResponse

(***************************************************************************)
(* SpecCalls: outbound calls on one protocol engine.  call_method runs up  *)
(* to its await (CallStart); the caller is resumed (CallResume) once its   *)
(* future is done: by a response (_handle_response), by wait_for's timer   *)
(* (TimeoutFires), by the cancellation of the calling task (CancelCall) or *)
(* by cleanup().                                                           *)
(***************************************************************************)
\* responses a peer may send: for ids of calls, for ids nobody issued, without id
ResponseIds == {Uuid(n) : n \in 1 .. MaxCalls} \cup {"0", ABSENT}
RemoteErrors ==
    {[code |-> -32601, message |-> "Method not found: m", data |-> NULL],
     [code |-> -32000, message |-> "Permission denied", data |-> "read"]}
CallInbound ==
    {Json("2.0", id, ABSENT, ABSENT, "hi", NoError) : id \in ResponseIds}
    \cup {Json("2.0", id, ABSENT, ABSENT, ABSENT, error) :
            id \in ResponseIds, error \in RemoteErrors}
    \cup {create_request("test", NULL, "0", 0), create_notification("test", NULL)}

\* call_method, lines 406-420: a fresh id, a future in the table, then the await
CallStart(c) ==
    /\ calls[c].pc = "idle"
    /\ \A d \in Calls : d < c => calls[d].pc # "idle"
    /\ uuid_count' = uuid_count + 1
    /\ pending_requests' =
          [k \in DOMAIN pending_requests \cup {Uuid(uuid_count')} |->
              IF k = Uuid(uuid_count') THEN c ELSE pending_requests[k]]
    /\ calls' = [calls EXCEPT ![c] = [IdleCall EXCEPT !.pc = "waiting",
                                         !.id = Uuid(uuid_count'), !.fut = "pending"]]
    /\ UNCHANGED <<methods, middleware, last>>

\* asyncio.wait_for: the timeout elapses while the future is pending; the
\* future is cancelled and the caller is scheduled to resume with TimeoutError
TimeoutFires(c) ==
    /\ calls[c].pc = "waiting"
    /\ calls[c].fut = "pending"
    /\ calls' = [calls EXCEPT ![c].fut = "cancelled", ![c].timed_out = TRUE]
    /\ UNCHANGED <<methods, middleware, pending_requests, uuid_count, last>>

\* the task awaiting call_method is cancelled: its awaited future is cancelled
\* and CancelledError is thrown into call_method when the task resumes
CancelCall(c) ==
    /\ calls[c].pc = "waiting"
    /\ calls[c].fut = "pending"
    /\ calls' = [calls EXCEPT ![c].fut = "cancelled"]
    /\ UNCHANGED <<methods, middleware, pending_requests, uuid_count, last>>

\* call_method, lines 420-430: the await ends.  TimeoutError and Exception are
\* caught (the entry is popped, the error re-raised); CancelledError is a
\* BaseException and passes both except clauses
CallResume(c) ==
    /\ calls[c].pc = "waiting"
    /\ calls[c].fut # "pending"
    /\ calls' = [calls EXCEPT ![c].pc =
                    CASE calls[c].timed_out -> "raised_timeout"
                      [] calls[c].fut = "result" -> "returned"
                      [] calls[c].fut = "exception" -> "raised_rpc"
                      [] OTHER -> "cancelled"]
    /\ pending_requests' =
          IF calls[c].timed_out \/ calls[c].fut = "exception"
          THEN Pop(pending_requests, calls[c].id)
          ELSE pending_requests
    /\ UNCHANGED <<methods, middleware, uuid_count, last>>

\* a cleanup that clears the table and leaves the futures alone
Cleaned_clear_only(pend, cs) ==
    [pend |-> NoTable, cs |-> cs]

\* JSONRPCProtocol.cleanup: every future of the table that is not done is
\* cancelled, then the table is cleared
Cleaned(pend, cs) ==
    [pend |-> NoTable,
     cs |-> [c \in Calls |->
                IF cs[c].id \in DOMAIN pend /\ cs[c].fut = "pending"
                THEN [cs[c] EXCEPT !.fut = "cancelled"]
                ELSE cs[c]]]

cleanup ==
    /\ calls' = Cleaned(pending_requests, calls).cs
    /\ pending_requests' = Cleaned(pending_requests, calls).pend
    /\ UNCHANGED <<methods, middleware, uuid_count, last>>

CallStartStep == (\E c \in Calls : CallStart(c)) /\ UNCHANGED <<rlVars, mgrVars, extVars>>
TimeoutStep == (\E c \in Calls : TimeoutFires(c)) /\ UNCHANGED <<rlVars, mgrVars, extVars>>
CancelStep == (\E c \in Calls : CancelCall(c)) /\ UNCHANGED <<rlVars, mgrVars, extVars>>
ResumeStep == (\E c \in Calls : CallResume(c)) /\ UNCHANGED <<rlVars, mgrVars, extVars>>
ResponseStep ==
    /\ \E message_data \in CallInbound : ProcessMessage(message_data)
    /\ UNCHANGED <<rlVars, mgrVars, extVars>>
CleanupStep == cleanup /\ UNCHANGED <<rlVars, mgrVars, extVars>>

CallsNext ==
    CallStartStep \/ TimeoutStep \/ CancelStep \/ ResumeStep \/ ResponseStep \/ CleanupStep
SpecCalls == ProtoInit /\ [][CallsNext]_vars

\* calls, timeouts, result responses and cleanup.  The event loop runs every
\* callback it has scheduled: a caller whose future is done is resumed
ResultStep ==
    /\ \E id \in ResponseIds :
          ProcessMessage(Json("2.0", id, ABSENT, ABSENT, "hi", NoError))
    /\ UNCHANGED <<rlVars, mgrVars, extVars>>
CleanupNext ==
    CallStartStep \/ TimeoutStep \/ ResumeStep \/ ResultStep \/ CleanupStep
SpecCleanup ==
    /\ ProtoInit
    /\ [][CleanupNext]_vars
    /\ \A c \in Calls : WF_vars(CallResume(c) /\ UNCHANGED <<rlVars, mgrVars, extVars>>)

(***************************************************************************)
(* Claims on the pending-call table (SpecCalls)                            *)
(***************************************************************************)
\* C4: the pending-call table holds at most one entry per request id (an
\* entry's key is the id of the one call whose future it holds, and no two
\* calls share an id), and once call_method has returned a result, raised the
\* remote error or raised the timeout, its request id is not in the table.
C4_PendingRemoved ==
    /\ \A id \in DOMAIN pending_requests : calls[pending_requests[id]].id = id
    /\ \A c, d \in Calls : (c # d /\ calls[c].pc # "idle" /\ calls[d].pc # "idle")
                              => calls[c].id # calls[d].id
    /\ \A c \in Calls :
          calls[c].pc \in {"returned", "raised_rpc", "raised_timeout"}
              => calls[c].id \notin DOMAIN pending_requests

\* C4 witness: one call ended by its response, another by its timeout
C4_Witness ==
    \E c, d \in Calls : /\ calls[c].pc \in {"returned", "raised_rpc"}
                        /\ calls[d].pc = "raised_timeout"

\* C6 (as claimed): once the cancellation of a waiting call_method has
\* propagated, the call's request id is not in the pending-call table.
C6_CancelRemoves ==
    \A c \in Calls :
        calls[c].pc = "cancelled" => calls[c].id \notin DOMAIN pending_requests

(***************************************************************************)
(* SpecRL: one RateLimiter(max_requests, window_seconds), checks by two    *)
(* clients and cleanup_old_entries, on a clock that only moves forward.    *)
(***************************************************************************)
ProtoIdle ==
    /\ methods = [k \in {} |-> NULL]
    /\ middleware = <<>>
    /\ pending_requests = NoTable
    /\ calls = [c \in Calls |-> IdleCall]
    /\ uuid_count = 0
    /\ last = Nothing

\* RateLimiter.__init__(max_requests, window_seconds)
RLInit ==
    /\ rl_max \in {1, 2}
    /\ rl_window \in {1, 2}
    /\ requests = [k \in {} |-> <<>>]
    /\ now = 0
    /\ rl_log = <<>>
    /\ ProtoIdle
    /\ MgrIdle
    /\ ExtIdle

Check(client_id) ==
    LET r == check_rate_limit(requests, client_id, now, rl_max, rl_window)
    IN  /\ Len(rl_log) < MaxChecks
        /\ requests' = r.requests
        /\ rl_log' = Append(rl_log, [client |-> client_id, t |-> now, ok |-> r.ok])
        /\ UNCHANGED <<rl_max, rl_window, now>>

CleanupOldEntries ==
    /\ requests' = cleanup_old_entries(requests, now, rl_window)
    /\ UNCHANGED <<rl_max, rl_window, now, rl_log>>

Tick ==
    /\ now < MaxTime
    /\ now' = now + 1
    /\ UNCHANGED <<rl_max, rl_window, requests, rl_log>>

CheckStep == (\E client_id \in Clients : Check(client_id)) /\ UNCHANGED <<protoVars, mgrVars, extVars>>
CleanupOldStep == CleanupOldEntries /\ UNCHANGED <<protoVars, mgrVars, extVars>>
TickStep == Tick /\ UNCHANGED <<protoVars, mgrVars, extVars>>

RLNext == CheckStep \/ CleanupOldStep \/ TickStep
SpecRL == RLInit /\ [][RLNext]_vars

\* the checks of one client, in order
RECURSIVE ChecksOf(_, _)
ChecksOf(log, client_id) ==
    IF log = <<>> THEN <<>>
    ELSE IF Head(log).client = client_id
         THEN <<Head(log)>> \o ChecksOf(Tail(log), client_id)
         ELSE ChecksOf(Tail(log), client_id)

\* C9: on a limiter with max_requests = N and window W, the k-th check of a peer
\* (counted from the peer's empty window) returns true for k <= N and false for
\* k = N+1, when it is made within the window of the peer's first check
\* (at most W after it).
C9_FirstNThenReject ==
    \A client_id \in Clients :
        LET h == ChecksOf(rl_log, client_id)
        IN  \A k \in 1 .. Len(h) :
                (h[k].t - h[1].t <= rl_window)
                => /\ (k <= rl_max => h[k].ok)
                   /\ (k = rl_max + 1 => ~h[k].ok)

\* C9 witness: a peer with N = 2 was accepted twice and then rejected, the
\* rejected check made exactly W after the first one
C9_Witness ==
    LET h == ChecksOf(rl_log, "client1")
    IN  /\ rl_max = 2
        /\ Len(h) = 3
        /\ h[1].ok /\ h[2].ok /\ ~h[3].ok
        /\ h[3].t = h[1].t + rl_window

\* a peer's check k comes after a rejection and at least `gap` after every
\* accepted check of that peer
AfterRejection(h, k) == \E j \in 1 .. (k - 1) : ~h[j].ok
AcceptedAllOlder(h, k, gap) == \A j \in 1 .. (k - 1) : h[j].ok => h[k].t - h[j].t >= gap

\* C10 (as claimed): once a peer has been rejected, a check made at time t with
\* t - (time of each of its accepted checks) >= W, exactly W included, returns
\* true.
C10_AllowedAgainAtW ==
    \A client_id \in Clients :
        LET h == ChecksOf(rl_log, client_id)
        IN  \A k \in 1 .. Len(h) :
                (AfterRejection(h, k) /\ AcceptedAllOlder(h, k, rl_window)) => h[k].ok

\* C10 (amended): once a peer has been rejected, a check made at time t with
\* t - (time of each of its accepted checks) > W returns true; at exactly W the
\* accepted checks still count.
C10_AllowedAgainAfterW ==
    \A client_id \in Clients :
        LET h == ChecksOf(rl_log, client_id)
        IN  \A k \in 1 .. Len(h) :
                (AfterRejection(h, k) /\ AcceptedAllOlder(h, k, rl_window + 1)) => h[k].ok

\* C10 witness: a peer was accepted, rejected, and more than W later accepted
C10_Witness ==
    LET h == ChecksOf(rl_log, "client1")
    IN  /\ Len(h) = 3
        /\ h[1].ok /\ ~h[2].ok /\ h[3].ok
        /\ h[3].t - h[1].t > rl_window

\* self.requests[client_id] as a check would find it
WindowOf(client_id) == IF client_id \in DOMAIN requests THEN requests[client_id] ELSE <<>>

\* the timestamps of the accepted checks of a history, in order
RECURSIVE AcceptedTimes(_)
AcceptedTimes(h) ==
    IF h = <<>> THEN <<>>
    ELSE IF Head(h).ok THEN <<Head(h).t>> \o AcceptedTimes(Tail(h))
         ELSE AcceptedTimes(Tail(h))

\* how many accepted checks before check k of a history are at most W older
AcceptedWithin(h, k) ==
    Cardinality({j \in 1 .. (k - 1) : h[j].ok /\ h[j].t >= h[k].t - rl_window})

\* C34: check_rate_limit records the timestamp exactly when it returns true:
\* what is left of a peer's window at the current time is what is left of the
\* timestamps of its accepted checks (no rejected check is in it, every accepted
\* one still inside the window is); a peer's window never holds more than
\* max_requests timestamps; and rejected checks do not count against the peer,
\* a check is accepted whenever fewer than max_requests of the peer's accepted
\* checks are at most W old.  (The clock does not go backwards.)
C34_RecordsIffAccepted ==
    \A client_id \in Clients :
        LET h == ChecksOf(rl_log, client_id)
        IN  /\ Evict(WindowOf(client_id), now, rl_window)
                  = Evict(AcceptedTimes(h), now, rl_window)
            /\ Len(WindowOf(client_id)) <= rl_max
            /\ \A k \in 1 .. Len(h) : AcceptedWithin(h, k) < rl_max => h[k].ok

\* C34 witness: a peer was accepted, then rejected twice at different times,
\* then accepted again, and its window is full
C34_Witness ==
    LET h == ChecksOf(rl_log, "client1")
    IN  /\ Len(h) = 4
        /\ h[1].ok /\ ~h[2].ok /\ ~h[3].ok /\ h[4].ok
        /\ h[2].t < h[3].t
        /\ Len(WindowOf("client1")) = rl_max

\* C39: for every peer and every time t, at most max_requests of the peer's
\* accepted checks have a timestamp in (t - W, t]; and the outcome of every check
\* is decided by the peer's own accepted checks alone (true exactly when fewer
\* than max_requests of them are at most W old), so neither the checks of
\* another peer nor a cleanup_old_entries in between changes it.  (The clock
\* does not go backwards.)
C39_WindowBound ==
    \A client_id \in Clients :
        LET h == ChecksOf(rl_log, client_id)
        IN  /\ \A t \in 0 .. MaxTime :
                   Cardinality({k \in 1 .. Len(h) :
                                   h[k].ok /\ h[k].t > t - rl_window /\ h[k].t <= t}) <= rl_max
            /\ \A k \in 1 .. Len(h) : h[k].ok <=> AcceptedWithin(h, k) < rl_max

\* C39 witness: checks of two peers are interleaved, one peer is rejected
\* while the other is accepted at the same time, and cleanup_old_entries has
\* deleted a deque in between (a peer with an accepted check has none)
C39_Witness ==
    LET h1 == ChecksOf(rl_log, "client1")
        h2 == ChecksOf(rl_log, "client2")
    IN  /\ Len(h1) = 2 /\ h1[1].ok /\ ~h1[2].ok
        /\ Len(h2) = 2 /\ h2[1].ok /\ h2[2].ok /\ h2[1].t = h1[2].t
        /\ rl_log[1].client = "client1" /\ rl_log[2].client = "client2"
        /\ "client1" \notin DOMAIN requests
        /\ h2[2].t = now

(***************************************************************************)
(* SpecMgr: a server manager and a client manager.  The client connects    *)
(* to the server manager's address or to a foreign server that speaks the  *)
(* wire format; the client's protocol engine is (methods, middleware,      *)
(* pending_requests), its security layer's limiter is (requests, now).     *)
(***************************************************************************)
\* IPCManager.__init__ of both managers; the client's security_config varies
MgrInit ==
    /\ srv = [is_server |-> FALSE, is_connected |-> FALSE, methods |-> {}, connections |-> {}]
    /\ \E security \in SecurityNames :
          cli = [is_connected |-> FALSE, transport |-> "none", server_task |-> "none",
                 security |-> security]
    /\ link = [peer |-> "none", accepted |-> FALSE, peer_closed |-> FALSE]
    /\ mcall = IdleMCall
    /\ mlast = NoHandled
    /\ seen = {}
    /\ ProtoIdle
    /\ rl_max = 2 /\ rl_window = 60 /\ requests = [k \in {} |-> <<>>] /\ now = 0
    /\ rl_log = <<>>
    /\ ExtIdle

\* frames a foreign server sends to the client
Frames ==
    {create_request("echo", "[hi]", "0", 0),
     create_request("echo", "{__class__:1}", "abc", 0),
     create_request("echo", "[deep]", "abc", 0),
     create_request("echo", "[big]", "abc", 0),
     create_request("echo", "5", "abc", 0),
     create_request("boom", NULL, "abc", 0),
     create_request("system.info", NULL, "abc", 0),
     create_notification("echo", "[hi]"),
     create_response(Uuid(1), "hi"),
     Garbage,
     [Garbage EXCEPT !.kind = "empty"],
     [Garbage EXCEPT !.kind = "oversize"]}

ManagerMethods == {"echo", "boom"}

\* IPCManager.register_method on the server / on the client
ServerRegister(name) ==
    /\ srv' = [srv EXCEPT !.methods = @ \cup {name}]
    /\ UNCHANGED <<extVars, protoVars, rlVars, cli, link, mcall, mlast, seen>>
ClientRegister(name) ==
    /\ register_method(name, HandlerOf(name))
    /\ UNCHANGED <<rlVars, mgrVars, extVars>>

\* IPCManager.start_server
start_server ==
    /\ ~srv.is_server
    /\ srv' = [srv EXCEPT !.is_server = TRUE, !.is_connected = TRUE]
    /\ UNCHANGED <<extVars, protoVars, rlVars, cli, link, mcall, mlast, seen>>

\* IPCManager.connect_to_server(address): the server manager's address (its
\* socket file exists once it listens) or a foreign server's; on failure the
\* transport object stays, unconnected
connect_to_server(peer) ==
    /\ ~cli.is_connected
    /\ IF peer = "srv" /\ ~srv.is_server
       THEN /\ cli' = [cli EXCEPT !.transport = "unconnected"]
            /\ UNCHANGED link
       ELSE /\ cli' = [cli EXCEPT !.transport = "connected", !.is_connected = TRUE,
                                  !.server_task = "running"]
            /\ link' = [peer |-> peer, accepted |-> FALSE, peer_closed |-> FALSE]
    /\ UNCHANGED <<extVars, protoVars, rlVars, srv, mcall, mlast, seen>>

\* UnixSocketTransport.start_server.handle_client on the server: the
\* connection is put into transport.connections, taken out again in the
\* finally clause and its writer closed, all before the first await
handle_client ==
    /\ link.peer = "srv"
    /\ ~link.accepted
    /\ link' = [link EXCEPT !.accepted = TRUE, !.peer_closed = TRUE]
    /\ UNCHANGED <<extVars, protoVars, rlVars, srv, cli, mcall, mlast, seen>>

\* transport.connections of the server transport: the accepted connections
\* that handle_client has not taken out again
TransportConnections ==
    IF link.peer = "srv" /\ link.accepted /\ ~link.peer_closed THEN {"client"} ELSE {}

\* IPCManager._server_loop, one pass of the while loop: a Connection record
\* is made for every client of transport.connections that has none
_server_loop ==
    /\ srv.is_server /\ srv.is_connected
    /\ srv' = [srv EXCEPT !.connections = @ \cup TransportConnections]
    /\ UNCHANGED <<extVars, protoVars, rlVars, cli, link, mcall, mlast, seen>>

\* a foreign server closes the connection
PeerClose ==
    /\ link.peer = "foreign"
    /\ ~link.peer_closed
    /\ link' = [link EXCEPT !.peer_closed = TRUE]
    /\ UNCHANGED <<extVars, protoVars, rlVars, srv, cli, mcall, mlast, seen>>

\* _client_loop: receive() fails (the peer closed the stream, or the frame's
\* declared length is over buffer_size * 10) and the loop breaks
ClientLoopBreak ==
    /\ cli.server_task = "running"
    /\ link.peer_closed
    /\ cli' = [cli EXCEPT !.server_task = "ended"]
    /\ UNCHANGED <<extVars, protoVars, rlVars, srv, link, mcall, mlast, seen>>

\* _client_loop: receive() returns a frame of the foreign server and
\* _handle_message handles it (an empty frame is skipped)
ClientLoopReceive(data) ==
    LET h == _handle_message(cli.security, methods, middleware, pending_requests, calls,
                             requests, now, data, "server")
    IN  /\ cli.server_task = "running"
        /\ link.peer = "foreign"
        /\ ~link.peer_closed
        /\ IF data.kind = "oversize"
           THEN /\ cli' = [cli EXCEPT !.server_task = "ended"]
                /\ UNCHANGED <<protoVars, rlVars, mlast, seen>>
           ELSE IF data.kind = "empty"
           THEN UNCHANGED <<protoVars, rlVars, cli, mlast, seen>>
           ELSE /\ mlast' = [raw |-> data, validation |-> h.validation,
                             processed |-> h.processed, invoked |-> h.pm.invoked,
                             response |-> h.pm.response, written |-> h.written]
                /\ requests' = h.requests
                /\ seen' = IF h.processed /\ ~Has(data, "method")
                              /\ (Has(data, "result") \/ Has(data, "error"))
                           THEN seen \cup {Get(data, "id")} ELSE seen
                /\ UNCHANGED <<protoVars, rl_max, rl_window, now, rl_log, cli>>
        /\ UNCHANGED <<extVars, srv, link, mcall>>

\* IPCManager.call_method(method, params, timeout): the request is built with
\* a fresh id and sent; None is returned.  transport.send to a peer that has
\* closed may fail or not
ManagerCall(method, params, send_ok) ==
    /\ mcall.pc = "idle"
    /\ send_ok \/ link.peer_closed
    /\ IF ~cli.is_connected
       THEN /\ mcall' = [mcall EXCEPT !.pc = "raised"]
            /\ UNCHANGED uuid_count
       ELSE /\ uuid_count' = uuid_count + 1
            /\ mcall' = [pc |-> IF send_ok THEN "returned" ELSE "raised",
                         id |-> Uuid(uuid_count'), result |-> NULL,
                         loop_ended |-> (cli.server_task = "ended")]
    /\ UNCHANGED <<extVars, methods, middleware, pending_requests, calls, last,
                   rlVars, srv, cli, link, mlast, seen>>

\* time passes
MgrTick ==
    /\ now < TickSeconds
    /\ now' = now + TickSeconds
    /\ UNCHANGED <<extVars, protoVars, rl_max, rl_window, requests, rl_log, mgrVars>>

ServerRegisterStep == \E name \in {"echo"} : ServerRegister(name)
ClientRegisterStep == \E name \in ManagerMethods : ClientRegister(name)
ConnectStep == \E peer \in {"srv", "foreign"} : connect_to_server(peer)
ReceiveStep == \E data \in Frames : ClientLoopReceive(data)
CallStep == \E send_ok \in BOOLEAN : ManagerCall("echo", "[hi]", send_ok)

MgrNext ==
    \/ ServerRegisterStep \/ ClientRegisterStep \/ start_server \/ ConnectStep
    \/ handle_client \/ _server_loop \/ PeerClose \/ ClientLoopBreak \/ ReceiveStep
    \/ CallStep
    \/ MgrTick
SpecMgr == MgrInit /\ [][MgrNext]_vars

(***************************************************************************)
(* Claims about the managers                                               *)
(***************************************************************************)
IsRequestWithId(data) ==
    /\ data.kind = "dict"
    /\ Has(data, "method")
    /\ Has(data, "id") /\ Get(data, "id") # NULL

\* C3: with a server manager that registered "echo" and a client manager
\* connected to it, the client's call_method("echo", ["hi"], timeout=5), once
\* it has completed, has the result "hi".
C3_EchoResult ==
    (mcall.pc = "returned" /\ link.peer = "srv" /\ "echo" \in srv.methods)
        => mcall.result = "hi"

\* C5: an outbound call_method of a manager does not complete before the
\* response with its request id has arrived (IPCManager.call_method has no
\* timer: its timeout argument is not used, so no timeout can have fired).
C5_NoEarlyCompletion ==
    mcall.pc = "returned" => mcall.id \in seen

\* C7: every inbound message with a method and a non-null id that the manager
\* has handled was answered with exactly one frame, carrying the same id.
C7_RequestAnswered ==
    IsRequestWithId(mlast.raw)
        => /\ mlast.written = 1
           /\ mlast.response # NoResponse
           /\ Get(mlast.response, "id") = Get(mlast.raw, "id")

\* C8: on a manager with a security layer, a handler has been invoked for an
\* inbound message only if the message passed security validation: it was
\* within the rate limit, the size and depth limits, its method is neither
\* blocked nor of a dangerous pattern, and its params have no dangerous key.
C8_InvokedOnlyAfterValidation ==
    (cli.security # "none" /\ mlast.invoked)
        => /\ mlast.validation = "ok"
           /\ PayloadBytes(mlast.raw) <= ConfigOf(cli.security).max_payload_size
           /\ NestingDepth(mlast.raw) <= ConfigOf(cli.security).max_object_depth
           /\ validate_method_name(ConfigOf(cli.security), Get(mlast.raw, "method")) = "ok"
           /\ validate_parameters(ConfigOf(cli.security), mlast.raw) = "ok"

\* a handler was invoked on a manager with a security layer, for a request
\* that passed validation and was answered
C8_Witness ==
    /\ cli.security = "tight"
    /\ mlast.invoked
    /\ mlast.validation = "ok"
    /\ IsRequestWithId(mlast.raw)
    /\ mlast.written = 1

(***************************************************************************)
(* SpecLife: one IPCManager from construction on: start_server,            *)
(* connect_to_server, shutdown in any order, with protocol.call_method     *)
(* calls in flight.  Transports and tasks are kept after the manager has   *)
(* dropped its reference to them.                                          *)
(***************************************************************************)
notLifeVars == <<rlVars, mgrVars, loopVars, routerVars, recvVars, tokenVars, moreVars>>
ShutdownHandlers == {"h1"}

LifeInit ==
    /\ ProtoIdle /\ RLIdle /\ MgrIdle
    /\ LifeIdle /\ LoopIdle /\ RouterIdle /\ RecvIdle /\ TokenIdle /\ MoreIdle

Transport(role, is_connected) == [role |-> role, is_connected |-> is_connected]
Task(kind) == [kind |-> kind, state |-> "running"]
Called(op, outcome) ==
    [lifelog EXCEPT !.op = op, !.outcome = outcome, !.before = mgr, !.shut_before = lifelog.shut]

\* IPCManager.start_server: refused when is_server; else a new transport
\* listens and the server loop and the cleanup loop are started
LifeStartServer ==
    /\ IF mgr.is_server
       THEN /\ lifelog' = Called("start_server", "IPCError")
            /\ UNCHANGED <<mgr, transports, tasks>>
       ELSE /\ Len(transports) < MaxTransports
            /\ transports' = Append(transports, Transport("server", TRUE))
            /\ tasks' = tasks \o <<Task("_server_loop"), Task("_cleanup_loop")>>
            /\ mgr' = [mgr EXCEPT !.transport = Len(transports'), !.is_server = TRUE,
                                  !.is_connected = TRUE, !.server_task = Len(tasks) + 1,
                                  !.cleanup_task = Len(tasks) + 2]
            /\ lifelog' = Called("start_server", "ok")
    /\ UNCHANGED <<protoVars, notLifeVars>>

\* IPCManager.connect_to_server(address): refused when is_connected; else a
\* new transport is created and connects (reachable says whether the address
\* exists and accepts); on success the client loop is started
LifeConnect(reachable) ==
    /\ IF mgr.is_connected
       THEN /\ lifelog' = Called("connect_to_server", "IPCError")
            /\ UNCHANGED <<mgr, transports, tasks>>
       ELSE /\ Len(transports) < MaxTransports
            /\ transports' = Append(transports, Transport("client", reachable))
            /\ IF reachable
               THEN /\ tasks' = Append(tasks, Task("_client_loop"))
                    /\ mgr' = [mgr EXCEPT !.transport = Len(transports'),
                                          !.is_connected = TRUE,
                                          !.server_task = Len(tasks')]
                    /\ lifelog' = Called("connect_to_server", "ok")
               ELSE /\ mgr' = [mgr EXCEPT !.transport = Len(transports')]
                    /\ lifelog' = Called("connect_to_server", "IPCError")
                    /\ UNCHANGED tasks
    /\ UNCHANGED <<protoVars, notLifeVars>>

\* _client_loop ends by itself: receive() raised and the loop broke
LifeLoopEnds(t) ==
    /\ tasks[t].kind = "_client_loop"
    /\ tasks[t].state = "running"
    /\ tasks' = [tasks EXCEPT ![t].state = "done"]
    /\ UNCHANGED <<mgr, transports, lifelog, protoVars, notLifeVars>>

\* a collaborator tries to register a shutdown handler: IPCManager has no
\* such method or attribute, the attempt raises AttributeError
LifeRegisterShutdownHandler(h) ==
    /\ lifelog' = [Called("register_shutdown_handler", "AttributeError")
                      EXCEPT !.handlers = @ \cup {h}]
    /\ UNCHANGED <<mgr, transports, tasks, protoVars, notLifeVars>>

Stop(ts, t) == IF t = NoTask THEN ts ELSE [ts EXCEPT ![t].state = "done"]
Close(xs, x) == IF x = NoTransport THEN xs ELSE [xs EXCEPT ![x].is_connected = FALSE]

\* IPCManager.shutdown: is_connected off, server_task and cleanup_task
\* cancelled and awaited, transport closed, protocol.cleanup(), connections
\* cleared; no handler is called
LifeShutdown ==
    /\ mgr' = [mgr EXCEPT !.is_connected = FALSE, !.connections = {}]
    /\ tasks' = Stop(Stop(tasks, mgr.server_task), mgr.cleanup_task)
    /\ transports' = Close(transports, mgr.transport)
    /\ cleanup
    /\ lifelog' = [Called("shutdown", "ok") EXCEPT !.shut = TRUE]
    /\ UNCHANGED notLifeVars

\* protocol.call_method calls by the manager's user
LifeCallStart ==
    /\ \E c \in Calls : CallStart(c)
    /\ lifelog' = Called("call_method", "waiting")
    /\ UNCHANGED <<mgr, transports, tasks, notLifeVars>>
LifeCallTimeout == (\E c \in Calls : TimeoutFires(c)) /\ UNCHANGED <<lifeVars, notLifeVars>>
LifeCallResume == (\E c \in Calls : CallResume(c)) /\ UNCHANGED <<lifeVars, notLifeVars>>

LifeConnectStep == \E reachable \in BOOLEAN : LifeConnect(reachable)
LifeLoopEndsStep == \E t \in DOMAIN tasks : LifeLoopEnds(t)
LifeRegisterStep == \E h \in ShutdownHandlers : LifeRegisterShutdownHandler(h)

LifeNext ==
    \/ LifeStartServer \/ LifeConnectStep \/ LifeLoopEndsStep \/ LifeRegisterStep
    \/ LifeShutdown \/ LifeCallStart \/ LifeCallTimeout \/ LifeCallResume
SpecLife == LifeInit /\ [][LifeNext]_vars

(***************************************************************************)
(* Claims about the manager's life                                         *)
(***************************************************************************)
\* the state of the spec's machine a manager is in, from its flags
Phase(m, shut) ==
    IF m.is_connected THEN "Active"
    ELSE IF shut THEN "Closed"
    ELSE IF m.is_server THEN "Active"
    ELSE "Idle"

\* C11: start_server and connect_to_server are accepted only from Idle; on an
\* Active manager they fail with IPCError and change no state; and once
\* shutdown() has run the manager is never Active again.
C11_Lifecycle ==
    LET starting == lifelog.op \in {"start_server", "connect_to_server"}
    IN  /\ (starting /\ lifelog.outcome = "ok")
              => Phase(lifelog.before, lifelog.shut_before) = "Idle"
        /\ (starting /\ Phase(lifelog.before, lifelog.shut_before) = "Active")
              => (lifelog.outcome = "IPCError" /\ mgr = lifelog.before)
        /\ lifelog.shut => Phase(mgr, lifelog.shut) # "Active"

\* C12: when shutdown() has completed, every shutdown handler a collaborator
\* registered with the manager has been invoked by it (before the transport
\* was closed).
C12_HandlersInvoked ==
    lifelog.op = "shutdown" => lifelog.handlers \subseteq lifelog.invoked

\* C13: right after shutdown() has completed, every background loop of the
\* manager has stopped, every transport it created is closed, the pending-call
\* table is empty and no call is still waiting on a pending future, the
\* connection map is empty and is_connected is false.
C13_AfterShutdown ==
    lifelog.op = "shutdown"
        => /\ \A t \in DOMAIN tasks : tasks[t].state = "done"
           /\ \A x \in DOMAIN transports : ~transports[x].is_connected
           /\ pending_requests = NoTable
           /\ \A c \in Calls : ~(calls[c].pc = "waiting" /\ calls[c].fut = "pending")
           /\ mgr.connections = {}
           /\ ~mgr.is_connected

(***************************************************************************)
(* SpecLoop: IPCManager._client_loop on one connection.  Frames arrive     *)
(* from the peer at any time; the loop reads one, and _handle_message      *)
(* validates it, routes it through the protocol engine (a handler may      *)
(* suspend) and writes the response, each at its own step.                 *)
(***************************************************************************)
notLoopVars == <<protoVars, rlVars, mgrVars, lifeVars, routerVars, recvVars, tokenVars, moreVars>>
\* what a frame is: a request (answered), a notification, a payload the
\* security layer rejects, or an empty payload
FrameKinds == {"request", "notification", "rejected", "empty"}

LoopInit ==
    /\ ProtoIdle /\ RLIdle /\ MgrIdle
    /\ LifeIdle /\ LoopIdle /\ RouterIdle /\ RecvIdle /\ TokenIdle /\ MoreIdle

\* the peer writes one more frame; frames are numbered in arrival order
Arrive(kind) ==
    /\ Len(outbox.read) + Len(inbox) < MaxFrames
    /\ inbox' = Append(inbox, [k |-> Len(outbox.read) + Len(inbox) + 1, kind |-> kind])
    /\ UNCHANGED <<handling, outbox, notLoopVars>>

\* a loop that starts a task for every frame instead of awaiting its handling
CanReceive_spawn(h) == TRUE

\* _client_loop: "await self._handle_message(data, 'server')" returns before
\* the loop calls receive() again
CanReceive(h) == h = {}

\* _client_loop: data = await self.transport.receive(); if data: handle it
LoopReceive ==
    /\ inbox # <<>>
    /\ CanReceive(handling)
    /\ inbox' = Tail(inbox)
    /\ outbox' = [outbox EXCEPT !.read = Append(@, Head(inbox).k)]
    /\ handling' = IF Head(inbox).kind = "empty" THEN handling
                   ELSE handling \cup {[k |-> Head(inbox).k, kind |-> Head(inbox).kind,
                                        stage |-> "validate"]}
    /\ UNCHANGED notLoopVars

\* _handle_message: security validation; a rejection ends the handling
HandleValidate(h) ==
    /\ h.stage = "validate"
    /\ handling' = IF h.kind = "rejected" THEN handling \ {h}
                   ELSE (handling \ {h}) \cup {[h EXCEPT !.stage = "process"]}
    /\ UNCHANGED <<inbox, outbox, notLoopVars>>

\* _handle_message: await self.protocol.process_message(message)
HandleProcess(h) ==
    /\ h.stage = "process"
    /\ handling' = IF h.kind = "notification" THEN handling \ {h}
                   ELSE (handling \ {h}) \cup {[h EXCEPT !.stage = "write"]}
    /\ UNCHANGED <<inbox, outbox, notLoopVars>>

\* _handle_message: await self.transport.send(response)
HandleWrite(h) ==
    /\ h.stage = "write"
    /\ handling' = handling \ {h}
    /\ outbox' = [outbox EXCEPT !.written = Append(@, h.k)]
    /\ UNCHANGED <<inbox, notLoopVars>>

ArriveStep == \E kind \in FrameKinds : Arrive(kind)
ValidateStep == \E h \in handling : HandleValidate(h)
ProcessStep == \E h \in handling : HandleProcess(h)
WriteStep == \E h \in handling : HandleWrite(h)

LoopNext == ArriveStep \/ LoopReceive \/ ValidateStep \/ ProcessStep \/ WriteStep
SpecLoop == LoopInit /\ [][LoopNext]_vars

\* C14: on one connection at most one frame is being handled at any time and
\* it is the frame read last (frame k+1 is not read before the handling of
\* frame k has ended); frames are read in arrival order and the responses are
\* written in the order of their requests.
C14_NoPipelining ==
    /\ Cardinality(handling) <= 1
    /\ \A h \in handling : h.k = outbox.read[Len(outbox.read)]
    /\ \A i \in DOMAIN outbox.read : outbox.read[i] = i
    /\ \A i, j \in DOMAIN outbox.written : i < j => outbox.written[i] < outbox.written[j]

\* two requests were read and answered while a third frame is already waiting
C14_Witness ==
    /\ Len(outbox.written) >= 2
    /\ inbox # <<>>
    /\ handling = {}

(***************************************************************************)
(* ServiceRegistry and MessageRouter (ipc/router.py)                       *)
(***************************************************************************)
\* params of route_message: None, a list, a dict (as its items), or another
\* JSON value
PNull == [shape |-> "null", items |-> <<>>, named |-> {}]
PList(items) == [shape |-> "list", items |-> items, named |-> {}]
PDict(named) == [shape |-> "dict", items |-> <<>>, named |-> named]
PScalar == [shape |-> "scalar", items |-> <<5>>, named |-> {}]

\* what a call ends with: a return value, or an exception with its code
RReturn(v) == [kind |-> "returned", value |-> v, exc |-> "none", code |-> 0,
               message |-> "", missing |-> {}]
RRaise(exc, code, message) == [kind |-> "raised", value |-> 0, exc |-> exc, code |-> code,
                               message |-> message, missing |-> {}]

\* the handlers registered: their parameters (inspect.signature) and bodies
Sig(handler) == IF handler \in {"add", "sub"} THEN <<"a", "b">> ELSE <<>>
HandlerBody(handler, args) ==
    CASE handler = "add" -> RReturn(args[1] + args[2])
      [] handler = "sub" -> RReturn(args[1] - args[2])
      [] handler = "answer" -> RReturn(42)
      [] handler = "fail_value" -> RRaise("ValueError", 0, "v")
      [] handler = "fail_type" -> RRaise("TypeError", 0, "unsupported operand type(s)")
      [] handler = "fail_validation" -> RRaise("ValidationError", 0, "bad")
      [] handler = "fail_rpc" -> RRaise("RPCError", -32001, "timeout")

\* MethodInfo
MethodInfo(handler, requires_auth, permissions) ==
    [handler |-> handler, requires_auth |-> requires_auth, permissions |-> permissions]

NameOf(pair) == pair[1]
ValueOf(named, name) == (CHOOSE pair \in named : pair[1] = name)[2]

\* handler(**params) binding its values by ascending value instead of by name
BindNamed_byvalue(sig, named) ==
    IF {NameOf(pair) : pair \in named} # {sig[i] : i \in DOMAIN sig}
    THEN RRaise("TypeError", 0, "unexpected or missing keyword argument")
    ELSE RReturn([i \in DOMAIN sig |->
            CHOOSE v \in {pair[2] : pair \in named} :
                Cardinality({w \in {pair[2] : pair \in named} : w < v}) = i - 1])

\* handler(**params): every parameter is given by its name, no other name
BindNamed(sig, named) ==
    IF {NameOf(pair) : pair \in named} # {sig[i] : i \in DOMAIN sig}
    THEN RRaise("TypeError", 0, "unexpected or missing keyword argument")
    ELSE RReturn([i \in DOMAIN sig |-> ValueOf(named, sig[i])])

\* handler(*params): as many values as parameters
BindPositional(sig, items) ==
    IF Len(items) # Len(sig)
    THEN RRaise("TypeError", 0, "missing or extra positional argument")
    ELSE RReturn(items)

\* MessageRouter._call_method_handler: [result, invoked, source]; source is
\* what the handler ended with when it was invoked, and the ValidationError
\* raised for params that do not fit it otherwise
Handling(result, invoked, source) == [result |-> result, invoked |-> invoked, source |-> source]
_call_method_handler(method_info, params) ==
    LET sig == Sig(method_info.handler)
        bound == CASE params.shape = "null" -> BindPositional(sig, <<>>)
                   [] params.shape = "list" -> BindPositional(sig, params.items)
                   [] params.shape = "dict" -> BindNamed(sig, params.named)
                   [] OTHER -> RRaise("ValidationError", 0, "Parameters must be array or object")
        res == HandlerBody(method_info.handler, bound.value)
    IN  IF bound.kind = "raised"
        THEN Handling(RRaise("ValidationError", 0, bound.message), FALSE,
                      RRaise("ValidationError", 0, bound.message))
        ELSE IF res.kind = "raised" /\ res.exc = "TypeError"
        THEN Handling(RRaise("ValidationError", 0, res.message), TRUE, res)
        ELSE Handling(res, TRUE, res)

\* context of route_message: context.get('authenticated', False) as "true",
\* "false" or "absent", and set(context.get('permissions', []))
Context(authenticated, permissions) ==
    [authenticated |-> authenticated, permissions |-> permissions]

\* an access check that is content with any one of the required permissions
_validate_method_access_any(method_info, context) ==
    IF method_info.requires_auth /\ context.authenticated # "true"
    THEN RRaise("RPCError", -32000, "Authentication required")
    ELSE IF method_info.permissions # {}
            /\ method_info.permissions \cap context.permissions = {}
    THEN [RRaise("RPCError", -32000, "Insufficient permissions. Missing: ")
             EXCEPT !.missing = method_info.permissions \ context.permissions]
    ELSE RReturn(0)

\* MessageRouter._validate_method_access
_validate_method_access(method_info, context) ==
    IF method_info.requires_auth /\ context.authenticated # "true"
    THEN RRaise("RPCError", -32000, "Authentication required")
    ELSE IF method_info.permissions # {}
            /\ ~(method_info.permissions \subseteq context.permissions)
    THEN [RRaise("RPCError", -32000, "Insufficient permissions. Missing: ")
             EXCEPT !.missing = method_info.permissions \ context.permissions]
    ELSE RReturn(0)

\* the middleware in use: one that returns, one that raises ValueError
RouterMiddlewares == {"rmw_pass", "rmw_raise"}
FirstRaisingRouter(mws, i) ==
    IF \E j \in DOMAIN mws : mws[j] = "rmw_raise"
    THEN CHOOSE j \in DOMAIN mws : mws[j] = "rmw_raise" /\ \A k \in 1 .. (j - 1) : mws[k] # "rmw_raise"
    ELSE 0

\* MessageRouter._handle_error: what is raised for an exception caught in
\* route_message
_handle_error(error) ==
    IF error.exc = "RPCError" THEN error
    ELSE IF error.exc = "ValidationError"
    THEN [RRaise("RPCError", -32602, error.message) EXCEPT !.missing = error.missing]
    ELSE [RRaise("RPCError", -32603, "Internal error: " \o error.message)
             EXCEPT !.missing = error.missing]

\* what get_method gives for a name that is not registered
NoMethod == MethodInfo("none", FALSE, {})

\* a lookup that falls back to some registered method for an unknown name
get_method_fallback(reg, method_name) ==
    IF method_name \in DOMAIN reg THEN reg[method_name]
    ELSE IF DOMAIN reg # {} THEN reg[CHOOSE k \in DOMAIN reg : TRUE]
    ELSE NoMethod

\* ServiceRegistry.get_method: self.methods.get(method_name)
get_method(reg, method_name) ==
    IF method_name \in DOMAIN reg THEN reg[method_name] ELSE NoMethod

\* one step of route_message: the i-th middleware of a list, the access
\* check, the handler
Event(ev, i) == [ev |-> ev, i |-> i]

\* a loop that calls every middleware of the list whatever the earlier ones did
RunMiddleware_all(mws, i, ev) ==
    [j \in 1 .. Len(mws) |-> Event(ev, j)]

\* for middleware in self.request_middleware / self.response_middleware:
\*     await self._call_middleware(middleware, ...)
\* the calls made from the i-th on: a middleware that raises ends the loop
RECURSIVE RunMiddleware(_, _, _)
RunMiddleware(mws, i, ev) ==
    IF i > Len(mws) THEN <<>>
    ELSE IF mws[i] = "rmw_raise" THEN <<Event(ev, i)>>
    ELSE <<Event(ev, i)>> \o RunMiddleware(mws, i + 1, ev)

\* MessageRouter.route_message(method_name, params, context) on a router with
\* the given registry and middleware: its outcome, whether the handler was
\* invoked, the middleware calls made (request and response), the exception
\* as first raised, and the steps taken in their order
Routed(call, result, invoked, mwcalls, source, trace) ==
    [method_name |-> call.method_name, params |-> call.params, context |-> call.context,
     method_info |-> call.method_info, request_middleware |-> call.request_middleware,
     response_middleware |-> call.response_middleware,
     result |-> result, invoked |-> invoked, mwcalls |-> mwcalls, source |-> source,
     trace |-> trace]
route_message(reg, rq_mws, rs_mws, method_name, params, context) ==
    LET method_info == get_method(reg, method_name)
        rq_stop == FirstRaisingRouter(rq_mws, 1)
        rs_stop == FirstRaisingRouter(rs_mws, 1)
        mw_error == RRaise("ValueError", 0, "middleware")
        access == _validate_method_access(method_info, context)
        called == _call_method_handler(method_info, params)
        rq_run == RunMiddleware(rq_mws, 1, "request")
        to_access == rq_run \o <<Event("access", 0)>>
        to_handler == to_access \o (IF called.invoked THEN <<Event("handler", 0)>> ELSE <<>>)
        to_end == to_handler \o RunMiddleware(rs_mws, 1, "response")
        R(result, invoked, mwcalls, source, trace) ==
            Routed([method_name |-> method_name, params |-> params, context |-> context,
                    method_info |-> method_info, request_middleware |-> rq_mws,
                    response_middleware |-> rs_mws],
                   result, invoked, mwcalls, source, trace)
    IN  IF method_info = NoMethod
        THEN R(RRaise("RPCError", -32601, "Method not found: " \o method_name), FALSE, 0,
               RRaise("RPCError", -32601, "Method not found: " \o method_name), <<>>)
        ELSE IF rq_stop # 0
        THEN R(_handle_error(mw_error), FALSE, rq_stop, mw_error, rq_run)
        ELSE IF access.kind = "raised"
        THEN R(_handle_error(access), FALSE, Len(rq_mws), access, to_access)
        ELSE IF called.result.kind = "raised"
        THEN R(_handle_error(called.result), called.invoked, Len(rq_mws), called.source,
               to_handler)
        ELSE IF rs_stop # 0
        THEN R(_handle_error(mw_error), TRUE, Len(rq_mws) + rs_stop, mw_error, to_end)
        ELSE R(called.result, TRUE, Len(rq_mws) + Len(rs_mws), called.source, to_end)

(***************************************************************************)
(* SpecRouter: a registry, a router, registrations and route_message calls *)
(***************************************************************************)
notRouterVars == <<protoVars, rlVars, mgrVars, lifeVars, loopVars, recvVars, tokenVars, moreVars>>

RouterInit ==
    /\ ProtoIdle /\ RLIdle /\ MgrIdle
    /\ LifeIdle /\ LoopIdle /\ RouterIdle /\ RecvIdle /\ TokenIdle /\ MoreIdle

\* what gets registered under each name
Registrations ==
    [add |-> {MethodInfo("add", FALSE, {}),
              MethodInfo("add", FALSE, {"read", "write"}),
              MethodInfo("add", TRUE, {"read"})},
     sub |-> {MethodInfo("sub", FALSE, {})},
     noarg |-> {MethodInfo(h, FALSE, {}) :
                  h \in {"answer", "fail_value", "fail_type", "fail_validation", "fail_rpc"}}]
RouterNames == DOMAIN Registrations
RouterParams ==
    {PNull, PList(<<5, 3>>), PList(<<5>>), PDict({<<"a", 5>>, <<"b", 3>>}),
     PDict({<<"a", 5>>, <<"x", 3>>}), PScalar}
Contexts ==
    {Context("absent", {}), Context("true", {}), Context("true", {"read"}),
     Context("false", {"read", "write"}), Context("true", {"read", "write"})}
\* the calls made: every shape of params under a context that passes every
\* access check, and every context with params [5, 3]
RouteInputs ==
    {<<method_name, params, Context("true", {"read", "write"})>> :
        method_name \in RouterNames \cup {"x.y"}, params \in RouterParams}
    \cup {<<method_name, PList(<<5, 3>>), context>> :
        method_name \in RouterNames \cup {"x.y"}, context \in Contexts}

\* ServiceRegistry.register_method; the router is set up before it is used
RouterRegister(name, info) ==
    /\ routed = NotRouted
    /\ registry' = [k \in DOMAIN registry \cup {name} |->
                        IF k = name THEN info ELSE registry[k]]
    /\ UNCHANGED <<request_middleware, response_middleware, routed, notRouterVars>>

\* MessageRouter.add_request_middleware / add_response_middleware
AddRequestMiddleware(mw) ==
    /\ routed = NotRouted
    /\ request_middleware' = Append(request_middleware, mw)
    /\ UNCHANGED <<registry, response_middleware, routed, notRouterVars>>
AddResponseMiddleware(mw) ==
    /\ routed = NotRouted
    /\ response_middleware' = Append(response_middleware, mw)
    /\ UNCHANGED <<registry, request_middleware, routed, notRouterVars>>

\* one route_message call
Route(method_name, params, context) ==
    /\ routed' = route_message(registry, request_middleware, response_middleware,
                               method_name, params, context)
    /\ UNCHANGED <<registry, request_middleware, response_middleware, notRouterVars>>

RouterRegisterStep == \E name \in RouterNames : \E info \in Registrations[name] : RouterRegister(name, info)
RequestMiddlewareStep ==
    /\ Len(request_middleware) < MaxMiddleware
    /\ \E mw \in RouterMiddlewares : AddRequestMiddleware(mw)
ResponseMiddlewareStep ==
    /\ Len(response_middleware) < MaxMiddleware
    /\ AddResponseMiddleware("rmw_raise")
RouteStep == \E input \in RouteInputs : Route(input[1], input[2], input[3])

RouterNext == RouterRegisterStep \/ RequestMiddlewareStep \/ ResponseMiddlewareStep \/ RouteStep
SpecRouter == RouterInit /\ [][RouterNext]_vars

\* what the calls below are about: a call of a registered method, one that no
\* request middleware stopped, and one whose access was refused
RoutedFound == routed # NotRouted /\ routed.method_name \in RouterNames
NoRequestRaise == \A i \in DOMAIN routed.request_middleware : routed.request_middleware[i] # "rmw_raise"
NoResponseRaise == \A i \in DOMAIN routed.response_middleware : routed.response_middleware[i] # "rmw_raise"
AccessRefused ==
    \/ routed.method_info.requires_auth /\ routed.context.authenticated # "true"
    \/ ~(routed.method_info.permissions \subseteq routed.context.permissions)

\* C15 as stated: whenever the method requires auth and the context is not
\* authenticated, or the context lacks a required permission, route_message
\* raises an RPCError with code -32000 and the handler is not invoked
C15_RefusedAlways32000 ==
    RoutedFound /\ AccessRefused =>
        /\ routed.result.kind = "raised" /\ routed.result.exc = "RPCError"
        /\ routed.result.code = -32000
        /\ ~routed.invoked

\* C15: the handler is invoked only if the access check passes; when access
\* is refused and no request middleware raised before the check,
\* route_message raises an RPCError with code -32000, which for a permission
\* failure names exactly the required permissions the context lacks; when a
\* request middleware raised first, its error (code -32603) is what is
\* raised; in both cases the handler is not invoked
C15_AccessChecked ==
    RoutedFound =>
        /\ routed.invoked => ~AccessRefused
        /\ AccessRefused /\ NoRequestRaise =>
              /\ routed.result.kind = "raised" /\ routed.result.exc = "RPCError"
              /\ routed.result.code = -32000
              /\ ~(routed.method_info.requires_auth /\ routed.context.authenticated # "true")
                    => routed.result.missing
                          = routed.method_info.permissions \ routed.context.permissions
        /\ AccessRefused /\ ~NoRequestRaise =>
              /\ routed.result.kind = "raised" /\ routed.result.exc = "RPCError"
              /\ routed.result.code = -32603
\* a call refused for the one permission the context lacks
C15_Witness ==
    /\ RoutedFound /\ NoRequestRaise
    /\ routed.method_info.permissions = {"read", "write"}
    /\ routed.context = Context("true", {"read"})
    /\ routed.result.code = -32000 /\ routed.result.missing = {"write"}
    /\ ~routed.invoked

\* C16: route_message returns the handler's result or raises an RPCError: a
\* ValidationError maps to code -32602, an RPCError keeps its own code, and
\* every other exception of a handler or middleware maps to code -32603
C16_TypedErrors ==
    routed # NotRouted =>
        /\ routed.result.kind = "raised" => routed.result.exc = "RPCError"
        /\ routed.source.kind = "raised" =>
              /\ routed.result.kind = "raised"
              /\ routed.result.code =
                    CASE routed.source.exc = "ValidationError" -> -32602
                      [] routed.source.exc = "RPCError" -> routed.source.code
                      [] OTHER -> -32603
        /\ routed.source.kind = "returned" => routed.result = routed.source

\* the by-name form of positional arguments
AsNamed(sig, items) == {<<sig[i], items[i]>> : i \in DOMAIN sig}
PositionalArguments == {<<5, 3>>, <<3, 5>>, <<>>}
AllowAll == Context("true", {"read", "write"})

\* C18: params are bound by shape: add with [5,3] and with {"a":5,"b":3}
\* yields 8, null calls the handler with no arguments, and on every router
\* the positional and the by-name form of the same arguments give the same
\* outcome
C18_BoundByShape ==
    /\ RoutedFound /\ NoRequestRaise /\ NoResponseRaise /\ ~AccessRefused =>
          /\ routed.method_info.handler = "add"
                /\ routed.params \in {PList(<<5, 3>>), PDict({<<"a", 5>>, <<"b", 3>>})}
                => routed.result = RReturn(8)
          /\ routed.method_info.handler = "answer" /\ routed.params = PNull
                => routed.invoked /\ routed.result = RReturn(42)
    /\ \A name \in DOMAIN registry : \A items \in PositionalArguments :
          Len(items) = Len(Sig(registry[name].handler)) =>
              route_message(registry, request_middleware, response_middleware,
                            name, PList(items), AllowAll).result
              = route_message(registry, request_middleware, response_middleware,
                              name, PDict(AsNamed(Sig(registry[name].handler), items)),
                              AllowAll).result
\* sub called by name, where the order of the arguments matters
C18_Witness ==
    /\ RoutedFound /\ routed.method_info.handler = "sub"
    /\ routed.params = PDict({<<"a", 5>>, <<"b", 3>>})
    /\ routed.result = RReturn(2)

(***************************************************************************)
(* SpecNotFound: a protocol engine and a router side by side, each with    *)
(* one method that may be registered, dispatching registered and           *)
(* unregistered names                                                      *)
(***************************************************************************)
NotFoundInit == ProtoInit

\* JSONRPCProtocol.register_method("echo", ...)
NFRegisterStep ==
    /\ register_method("echo", HandlerOf("echo"))
    /\ UNCHANGED <<rlVars, mgrVars, extVars>>
\* process_message on a request for "echo" or for a name never registered
NFDispatchStep ==
    /\ \E m \in {"echo", "nonexistent"}, id \in RequestIds :
          ProcessMessage(create_request(m, "[hi]", id, 0))
    /\ UNCHANGED <<rlVars, mgrVars, extVars>>
\* ServiceRegistry.register_method("add", ...)
NFRouterRegisterStep == RouterRegister("add", MethodInfo("add", FALSE, {}))
\* route_message on "add" or on a name never registered
NFRouteStep == \E method_name \in {"add", "x.y"} : Route(method_name, PList(<<5, 3>>), AllowAll)

NotFoundNext ==
    \/ NFRegisterStep \/ MiddlewareStep \/ NFDispatchStep
    \/ NFRouterRegisterStep \/ RequestMiddlewareStep \/ ResponseMiddlewareStep \/ NFRouteStep
SpecNotFound == NotFoundInit /\ [][NotFoundNext]_vars

\* C17: dispatching a name that is not registered gives Method-Not-Found,
\* code -32601, with the requested name in the message, and calls no handler
\* and no middleware: route_message raises it as an RPCError, and
\* process_message returns it as the error response with the request's id
C17_MethodNotFound ==
    /\ routed # NotRouted /\ routed.method_name \notin DOMAIN registry =>
          /\ routed.result.kind = "raised" /\ routed.result.exc = "RPCError"
          /\ routed.result.code = -32601
          /\ routed.result.message = "Method not found: " \o routed.method_name
          /\ ~routed.invoked /\ routed.mwcalls = 0
    /\ \A id \in RequestIds :
          last.raw = create_request("nonexistent", "[hi]", id, 0) =>
              /\ last.response.kind = "dict"
              /\ last.response.id = id
              /\ last.response.error.code = -32601
              /\ last.response.error.message = "Method not found: nonexistent"
              /\ last.response.result = ABSENT
              /\ ~last.invoked /\ last.mwcalls = 0
\* both dispatches of an unknown name made on engines that have a method, a
\* request middleware and a protocol middleware installed
C17_Witness ==
    /\ routed.method_name = "x.y" /\ routed.result.code = -32601
    /\ routed.request_middleware # <<>> /\ "add" \in DOMAIN registry
    /\ last.raw = create_request("nonexistent", "[hi]", "0", 0)
    /\ last.response.id = "0" /\ last.response.error.code = -32601
    /\ middleware # <<>> /\ "echo" \in DOMAIN methods

(***************************************************************************)
(* UnixSocketTransport.receive: length-prefixed frames read from a stream  *)
(***************************************************************************)
HeaderBytes == 4
SafetyFactor == 10
BufferSizes == 1 .. MaxBufferSize
Limit(buffer_size) == buffer_size * SafetyFactor

\* a frame on the stream: the length its header declares and the body bytes
\* that follow it (fewer than declared when the peer closed in between)
Frame(length, body) == [length |-> length, body |-> body]
DeclaredLengths(buffer_size) ==
    {0, 1, Limit(buffer_size) - 1, Limit(buffer_size), Limit(buffer_size) + 1}

\* a limit test that also refuses a frame of exactly the limit
TooLarge_inclusive(length, buffer_size) == length >= buffer_size * SafetyFactor

\* if length > self.config.buffer_size * 10
TooLarge(length, buffer_size) == length > buffer_size * SafetyFactor

\* receive(): what one call does with the stream s for a reader that has
\* read r.at frames: the frame it acted on, the bytes it consumed, how it
\* ended and the length of the data returned
Received(at, consumed, outcome, data, failed) ==
    [at |-> at, consumed |-> consumed, outcome |-> outcome, data |-> data, failed |-> failed]
receive(s, r) ==
    LET f == s.frames[r.at + 1]
    IN  IF r.at = Len(s.frames)
        THEN Received(r.at, 0, "closed", 0, TRUE)
        ELSE IF TooLarge(f.length, s.buffer_size)
        THEN Received(r.at + 1, HeaderBytes, "too_large", 0, TRUE)
        ELSE IF f.body < f.length
        THEN Received(r.at + 1, HeaderBytes + f.body, "closed", 0, TRUE)
        ELSE Received(r.at + 1, HeaderBytes + f.length, "data", f.length, FALSE)

(***************************************************************************)
(* SpecRecv: a peer writing frames to a stream and a reader calling        *)
(* receive() until its first error                                         *)
(***************************************************************************)
notRecvVars == <<protoVars, rlVars, mgrVars, lifeVars, loopVars, routerVars, tokenVars, moreVars>>

RecvInit ==
    /\ \E buffer_size \in BufferSizes :
          stream = [buffer_size |-> buffer_size, frames |-> <<>>, eof |-> FALSE]
    /\ rx = Received(0, 0, "none", 0, FALSE)
    /\ ProtoIdle /\ RLIdle /\ MgrIdle
    /\ LifeIdle /\ LoopIdle /\ RouterIdle /\ TokenIdle /\ MoreIdle

\* the peer's send(): a whole frame
StreamSend(length) ==
    /\ ~stream.eof /\ Len(stream.frames) < MaxStream
    /\ stream' = [stream EXCEPT !.frames = Append(@, Frame(length, length))]
    /\ UNCHANGED <<rx, notRecvVars>>
\* the peer closes, perhaps in the middle of a body
StreamClose(length, body) ==
    /\ ~stream.eof /\ Len(stream.frames) < MaxStream
    /\ stream' = [stream EXCEPT !.eof = TRUE,
                                !.frames = IF body < length THEN Append(@, Frame(length, body))
                                           ELSE @]
    /\ UNCHANGED <<rx, notRecvVars>>
\* one receive() call: readexactly waits until the bytes it asks for are
\* there or the stream has ended; the caller stops at the first error
Receive ==
    /\ ~rx.failed
    /\ rx.at < Len(stream.frames) \/ stream.eof
    /\ rx' = receive(stream, rx)
    /\ UNCHANGED <<stream, notRecvVars>>

StreamSendStep == \E length \in DeclaredLengths(stream.buffer_size) : StreamSend(length)
StreamCloseStep ==
    \E length \in DeclaredLengths(stream.buffer_size) :
        \E body \in {0, length - 1, length} \cap Nat : StreamClose(length, body)
RecvNext == StreamSendStep \/ StreamCloseStep \/ Receive
SpecRecv == RecvInit /\ [][RecvNext]_vars

\* C19: receive() on a frame whose header declares more than buffer_size*10
\* fails with the size-limit error having consumed the 4 header bytes and no
\* byte of the body, and a frame of exactly buffer_size*10 is read in full
\* and returned
C19_SizeLimit ==
    rx.outcome # "none" /\ rx.at > 0 /\ rx.consumed > 0 =>
        LET f == stream.frames[rx.at]
        IN  /\ f.length > stream.buffer_size * 10 =>
                  rx.outcome = "too_large" /\ rx.consumed = 4 /\ rx.data = 0
            /\ f.length = stream.buffer_size * 10 /\ f.body = f.length =>
                  /\ rx.outcome = "data" /\ rx.data = f.length
                  /\ rx.consumed = 4 + f.length
\* a frame of exactly the limit returned, then one of a byte more refused
C19_Witness ==
    /\ Len(stream.frames) = 2 /\ rx.at = 2
    /\ stream.frames[1].length = stream.buffer_size * 10
    /\ stream.frames[2] = Frame(stream.buffer_size * 10 + 1, stream.buffer_size * 10 + 1)
    /\ rx.outcome = "too_large" /\ rx.consumed = 4

(***************************************************************************)
(* TokenAuthenticator: generate_token and verify_token against a clock     *)
(* that is read in whole seconds                                           *)
(***************************************************************************)
\* int(time.time()) for a clock that stands at the given tick
Seconds(ticks) == ticks \div TicksPerSecond

\* a token: the timestamp in its payload, the tick it was made at, what its
\* signature is ("hmac": the HMAC of its payload under the authenticator's
\* secret; "flipped": that with one character changed; "stale": the HMAC of
\* the payload before it was altered; "other_secret": the HMAC under another
\* secret) and the form of its text ("claims": payload|signature with a JSON
\* object that has a timestamp; "no_separator"; "malformed": the payload is
\* not JSON; "no_timestamp")
Token(timestamp, born, signature, form) ==
    [timestamp |-> timestamp, born |-> born, signature |-> signature, form |-> form]
NoToken == Token(0, 0, "none", "none")
Verified(tok, at, max_age_seconds, outcome, exc) ==
    [token |-> tok, at |-> at, max_age_seconds |-> max_age_seconds, outcome |-> outcome,
     exc |-> exc]
NotVerified == Verified(NoToken, 0, 0, "none", "none")

\* TokenAuthenticator.generate_token at the given tick
generate_token(ticks) == Token(Seconds(ticks), ticks, "hmac", "claims")

\* the body of verify_token's try block: "payload" when the payload is
\* returned, else what is raised there
TokenCheck(outcome, exc) == [outcome |-> outcome, exc |-> exc]
_verify_token(tok, max_age_seconds, ticks) ==
    LET token_age == Seconds(ticks) - tok.timestamp
    IN  IF tok.form = "no_separator" THEN TokenCheck("Invalid token format", "SecurityError")
        ELSE IF tok.signature # "hmac" THEN TokenCheck("Invalid token signature", "SecurityError")
        ELSE IF tok.form = "malformed" THEN TokenCheck("Invalid token payload", "JSONDecodeError")
        ELSE IF tok.form = "no_timestamp" THEN TokenCheck("Token missing timestamp", "SecurityError")
        ELSE IF token_age > max_age_seconds THEN TokenCheck("Token expired", "SecurityError")
        ELSE TokenCheck("payload", "none")

\* TokenAuthenticator.verify_token at the given tick: every exception of the
\* try block is raised again as SecurityError
verify_token(tok, max_age_seconds, ticks) ==
    LET r == _verify_token(tok, max_age_seconds, ticks)
    IN  IF r.exc = "none" THEN r ELSE TokenCheck(r.outcome, "SecurityError")

(***************************************************************************)
(* SpecToken: one authenticator, time passing, tokens made, tampered with  *)
(* and verified                                                            *)
(***************************************************************************)
notTokenVars == <<protoVars, rlVars, mgrVars, lifeVars, loopVars, routerVars, recvVars, moreVars>>
MaxAges == {0, 1}

TokenInit ==
    /\ clock \in 0 .. (TicksPerSecond - 1)
    /\ token = NoToken
    /\ verified = NotVerified
    /\ ProtoIdle /\ RLIdle /\ MgrIdle
    /\ LifeIdle /\ LoopIdle /\ RouterIdle /\ RecvIdle /\ MoreIdle

\* time passes
TokenTick ==
    /\ clock < MaxClock
    /\ clock' = clock + 1
    /\ UNCHANGED <<token, verified, notTokenVars>>
GenerateToken ==
    /\ token' = generate_token(clock)
    /\ UNCHANGED <<clock, verified, notTokenVars>>
\* the token changed on its way: one character of the signature flipped, the
\* payload altered, or the separator lost
Tamperings == {"flipped", "altered", "no_separator"}
TamperToken(how) ==
    /\ token.signature = "hmac" /\ token.form = "claims"
    /\ token' = CASE how = "flipped" -> [token EXCEPT !.signature = "flipped"]
                  [] how = "altered" -> [token EXCEPT !.signature = "stale"]
                  [] how = "no_separator" -> [token EXCEPT !.form = "no_separator"]
    /\ UNCHANGED <<clock, verified, notTokenVars>>
\* a token that generate_token did not make: signed with another secret, or
\* a payload that is not JSON or has no timestamp signed with the secret
Forgeries ==
    {<<"other_secret", "claims">>, <<"hmac", "malformed">>, <<"hmac", "no_timestamp">>}
ForgeToken(signature, form) ==
    /\ token' = Token(Seconds(clock), clock, signature, form)
    /\ UNCHANGED <<clock, verified, notTokenVars>>
VerifyToken(max_age_seconds) ==
    /\ token # NoToken
    /\ verified' = LET r == verify_token(token, max_age_seconds, clock)
                   IN  Verified(token, clock, max_age_seconds, r.outcome, r.exc)
    /\ UNCHANGED <<clock, token, notTokenVars>>

VerifyTokenStep == \E max_age_seconds \in MaxAges : VerifyToken(max_age_seconds)
TamperTokenStep == \E how \in Tamperings : TamperToken(how)
ForgeTokenStep == \E forgery \in Forgeries : ForgeToken(forgery[1], forgery[2])
TokenNext == TokenTick \/ GenerateToken \/ TamperTokenStep \/ ForgeTokenStep \/ VerifyTokenStep
SpecToken == TokenInit /\ [][TokenNext]_vars

\* C20: verify_token(token, max_age_seconds=0) on a genuine token fails with
\* the "expired" error whenever some time has passed since generate_token,
\* be it less than a second
C20_ExpiredAfterAnyTime ==
    ( /\ verified.outcome # "none"
      /\ verified.max_age_seconds = 0
      /\ verified.token.signature = "hmac" /\ verified.token.form = "claims"
      /\ verified.at > verified.token.born )
    => verified.outcome = "Token expired"

\* C21: verify_token returns the payload only for a token whose signature is
\* the HMAC of its payload under the authenticator's secret, whose payload
\* parses and has a timestamp, and whose age is at most max_age_seconds; in
\* every other case it raises SecurityError and nothing else
C21_FailsClosed ==
    verified.outcome # "none" =>
        LET tok == verified.token
            genuine == tok.signature = "hmac" /\ tok.form = "claims"
            fresh == verified.at - tok.born <= verified.max_age_seconds * TicksPerSecond
        IN  /\ verified.outcome = "payload" <=> genuine /\ fresh
            /\ verified.outcome # "payload" => verified.exc = "SecurityError"
            /\ verified.outcome = "payload" => verified.exc = "none"

(***************************************************************************)
(* InputValidator.validate_json_structure on nested JSON objects           *)
(***************************************************************************)
\* a JSON value: an object holding an object ... holding an innermost object
\* (levels objects in all, each under the one key of the one before), and
\* what the innermost object holds: nothing, a number, a short string or an
\* empty array
Leaves == {"empty", "number", "string", "array"}
JsonValue(kind, levels, leaf) == [kind |-> kind, levels |-> levels, leaf |-> leaf]
Nested(levels, leaf) == JsonValue("object", levels, leaf)
\* data.items() of an object, the items of an array
Children(data) ==
    IF data.kind = "object"
    THEN IF data.levels > 1 THEN {Nested(data.levels - 1, data.leaf)}
         ELSE IF data.leaf = "empty" THEN {}
         ELSE {JsonValue(data.leaf, 0, "empty")}
    ELSE {}

\* InputValidator.validate_json_structure(data, depth): TRUE when it returns,
\* FALSE when it raises SecurityError
RECURSIVE validate_json_structure(_, _, _)
validate_json_structure(data, depth, max_object_depth) ==
    IF depth > max_object_depth THEN FALSE
    ELSE \A child \in Children(data) :
            validate_json_structure(child, depth + 1, max_object_depth)

(***************************************************************************)
(* SpecDepth: objects built one level at a time, as the unit test builds   *)
(* them, and validated under a configured max_object_depth                 *)
(***************************************************************************)
notValVars == <<protoVars, rlVars, mgrVars, lifeVars, loopVars, routerVars, recvVars, tokenVars, regVars, wireVars>>
Validated(data, outcome) == [data |-> data, outcome |-> outcome]

DepthInit ==
    /\ \E max_object_depth \in 0 .. MaxDepth : \E leaf \in Leaves :
          doc = [max_object_depth |-> max_object_depth, data |-> Nested(1, leaf)]
    /\ checked = Validated(Nested(1, "empty"), "none")
    /\ ProtoIdle /\ RLIdle /\ MgrIdle
    /\ LifeIdle /\ LoopIdle /\ RouterIdle /\ RecvIdle /\ TokenIdle /\ RegIdle /\ WireIdle

\* the object is put into a new outer object
Nest ==
    /\ doc.data.levels < doc.max_object_depth + 2
    /\ doc' = [doc EXCEPT !.data.levels = @ + 1]
    /\ UNCHANGED <<checked, notValVars>>
\* validator.validate_json_structure(data)
ValidateStructure ==
    /\ checked' = Validated(doc.data,
                     IF validate_json_structure(doc.data, 0, doc.max_object_depth)
                     THEN "accepted" ELSE "SecurityError")
    /\ UNCHANGED <<doc, notValVars>>

DepthNext == Nest \/ ValidateStructure
SpecDepth == DepthInit /\ [][DepthNext]_vars

\* C22: an object nested to depth max_object_depth is accepted and one nested
\* to depth max_object_depth+1 is rejected with SecurityError, whatever the
\* innermost object holds, nothing included
C22_DepthBoundary ==
    checked.outcome # "none" =>
        /\ checked.data.levels = doc.max_object_depth => checked.outcome = "accepted"
        /\ checked.data.levels = doc.max_object_depth + 1 => checked.outcome = "SecurityError"

\* C23: on a manager whose security configuration requires a token, every
\* message that comes without a valid token is rejected by
\* validate_incoming_message, with or without a secret configured, and is
\* not processed (the manager passes no token with any message)
C23_NoUnauthenticated ==
    ( /\ mlast # NoHandled
      /\ cli.security # "none"
      /\ ConfigOf(cli.security).require_auth_token )
    => mlast.validation # "ok" /\ ~mlast.processed

(***************************************************************************)
(* SpecInbound: process_message on every kind of inbound text while        *)
(* outbound calls are waiting in the pending-call table                    *)
(***************************************************************************)
InboundNext == CallStartStep \/ RegisterStep \/ MiddlewareStep \/ InboundStep
SpecInbound == ProtoInit /\ [][InboundNext]_vars

\* the envelopes process_message is to refuse
NotParsed(data) == data.kind \in {"garbage", "overnested"}
NotARequest(data) ==
    \/ data.kind = "nondict"
    \/ data.kind = "dict" /\ Get(data, "jsonrpc") # "2.0"
    \/ data.kind = "dict" /\ ~Has(data, "method") /\ ~Has(data, "result") /\ ~Has(data, "error")

\* C24: process_message answers a text that is not valid JSON with the
\* Parse-Error response (code -32700, id null) and an envelope that is no
\* object, lacks jsonrpc "2.0" or has none of method, result, error with the
\* Invalid-Request response (code -32600); in both cases it raises nothing,
\* invokes no handler and leaves the pending-call table as it was
C24_MalformedAnswered ==
    /\ NotParsed(last.raw) =>
          /\ last.response.kind = "dict"
          /\ last.response.error.code = -32700 /\ last.response.id = NULL
          /\ ~last.invoked /\ last.unchanged
    /\ NotARequest(last.raw) =>
          /\ last.response.kind = "dict"
          /\ last.response.error.code = -32600
          /\ ~last.invoked /\ last.unchanged

\* C25: an error response for a call that is waiting makes its call_method
\* raise an RPCError with the code, message and data of that response, and
\* touches no other call: the table loses that id only and every other call
\* is as it was
C25_RemoteErrorRaised ==
    /\ \A c \in Calls : \A error \in RemoteErrors :
          calls[c].pc = "waiting" /\ calls[c].fut = "pending" =>
              LET r == process_message(methods, middleware, pending_requests, calls,
                          Json("2.0", calls[c].id, ABSENT, ABSENT, ABSENT, error))
              IN  /\ r.response = NoResponse
                  /\ r.cs[c].fut = "exception"
                  /\ <<r.cs[c].code, r.cs[c].value, r.cs[c].data>>
                        = <<error.code, error.message, error.data>>
                  /\ \A d \in Calls \ {c} : r.cs[d] = calls[d]
                  /\ DOMAIN r.pend = DOMAIN pending_requests \ {calls[c].id}
                  /\ \A id \in DOMAIN r.pend : r.pend[id] = pending_requests[id]
    /\ \A c \in Calls :
          calls[c].pc = "raised_rpc" =>
              /\ calls[c].fut = "exception"
              /\ \E error \in RemoteErrors :
                    <<calls[c].code, calls[c].value, calls[c].data>>
                       = <<error.code, error.message, error.data>>
              /\ last.raw.id = calls[c].id /\ ~last.unchanged =>
                    <<calls[c].code, calls[c].value, calls[c].data>>
                       = <<last.raw.error.code, last.raw.error.message, last.raw.error.data>>
\* a call ended by the error response with data while another call is still
\* waiting
C25_Witness ==
    \E c, d \in Calls :
        /\ calls[c].pc = "raised_rpc"
        /\ <<calls[c].code, calls[c].value, calls[c].data>> = <<-32000, "Permission denied", "read">>
        /\ last.raw.id = calls[c].id /\ ~last.unchanged
        /\ calls[d].pc = "waiting" /\ calls[d].fut = "pending"
        /\ calls[d].id \in DOMAIN pending_requests

\* what cleanup makes of the current table and futures
AfterCleanup == Cleaned(pending_requests, calls)

MaxChain == 2          \* middleware of each kind added to a router

OrderRegistrations ==
    [add |-> {MethodInfo("add", FALSE, {}), MethodInfo("add", TRUE, {"read"})},
     noarg |-> {MethodInfo("answer", FALSE, {}), MethodInfo("fail_value", FALSE, {})}]
OrderInputs ==
    {<<"add", PList(<<5, 3>>), Context("absent", {})>>,
     <<"add", PList(<<5, 3>>), Context("true", {"read"})>>,
     <<"add", PList(<<5>>), Context("true", {"read"})>>,
     <<"noarg", PNull, Context("absent", {})>>,
     <<"x.y", PNull, Context("absent", {})>>}

OrderRegisterStep ==
    \E name \in DOMAIN OrderRegistrations :
        \E info \in OrderRegistrations[name] : RouterRegister(name, info)
OrderRequestStep ==
    /\ Len(request_middleware) < MaxChain
    /\ \E mw \in RouterMiddlewares : AddRequestMiddleware(mw)
OrderResponseStep ==
    /\ Len(response_middleware) < MaxChain
    /\ \E mw \in RouterMiddlewares : AddResponseMiddleware(mw)
OrderRouteStep == \E input \in OrderInputs : Route(input[1], input[2], input[3])

OrderNext == OrderRegisterStep \/ OrderRequestStep \/ OrderResponseStep \/ OrderRouteStep
SpecOrder == RouterInit /\ [][OrderNext]_vars

\* the steps of the last call that are of one kind, in the order taken
StepsOf(ev) == SelectSeq(routed.trace, LAMBDA e : e.ev = ev)
\* the k-th to the last step of the last call
StepsFrom(k) == SubSeq(routed.trace, k, Len(routed.trace))
\* the steps of a kind are the first n middleware of the list, in its order
InListOrder(steps, ev, n) ==
    /\ Len(steps) = n
    /\ \A j \in 1 .. n : steps[j] = Event(ev, j)
\* the first raising middleware of a list, 0 if none raises
FirstRaise(mws) ==
    IF \E j \in DOMAIN mws : mws[j] = "rmw_raise"
    THEN CHOOSE j \in DOMAIN mws : mws[j] = "rmw_raise" /\ \A k \in 1 .. (j - 1) : mws[k] = "rmw_pass"
    ELSE 0

\* C27: in a route_message call of a registered method the request
\* middleware run first and in registration order, all of them before the
\* access check and the handler; the response middleware run in registration
\* order after the handler; and when a request middleware raises, nothing
\* runs after it: no later middleware, no access check, no handler, no
\* response middleware
C27_MiddlewareOrder ==
    routed # NotRouted /\ routed.method_info # NoMethod =>
        LET n == Len(routed.request_middleware)
            stop == FirstRaise(routed.request_middleware)
            ran == IF stop = 0 THEN n ELSE stop
            rest == StepsFrom(ran + 1)
        IN  /\ InListOrder(SubSeq(routed.trace, 1, ran), "request", ran)
            /\ StepsOf("request") = SubSeq(routed.trace, 1, ran)
            /\ stop # 0 => rest = <<>> /\ ~routed.invoked
            /\ stop = 0 =>
                  /\ rest # <<>> /\ rest[1] = Event("access", 0)
                  /\ routed.invoked <=> (Len(rest) >= 2 /\ rest[2] = Event("handler", 0))
                  /\ StepsOf("handler") = (IF routed.invoked THEN <<Event("handler", 0)>> ELSE <<>>)
            /\ StepsOf("response") # <<>> =>
                  /\ routed.invoked
                  /\ StepsOf("response") = StepsFrom(ran + 3)
                  /\ InListOrder(StepsOf("response"), "response", Len(StepsOf("response")))
            /\ LET m == FirstRaise(routed.response_middleware)
               IN  routed.invoked /\ routed.source.kind = "returned" =>
                       Len(StepsOf("response"))
                          = (IF m = 0 THEN Len(routed.response_middleware) ELSE m)
\* a call that ran two request middleware, the access check, the handler and
\* two response middleware
C27_Witness ==
    /\ routed # NotRouted /\ routed.method_info # NoMethod
    /\ routed.request_middleware = <<"rmw_pass", "rmw_pass">>
    /\ Len(routed.response_middleware) = 2
    /\ routed.invoked
    /\ routed.trace = <<Event("request", 1), Event("request", 2), Event("access", 0),
                        Event("handler", 0), Event("response", 1), Event("response", 2)>>

\* C28: a client accepted by the server transport keeps a registered, open
\* connection (no client disconnects and no server transport is closed in
\* SpecMgr), so the server manager's loop finds it in transport.connections
\* and makes its Connection record
C28_AcceptedStaysOpen ==
    (link.peer = "srv" /\ link.accepted) =>
        /\ ~link.peer_closed
        /\ TransportConnections = {"client"}
        /\ srv.connections \subseteq {"client"}

\* C29: after a receive failure has ended the client loop, or a send has
\* failed, the manager does not report the connection as usable, and no
\* call_method made after the loop has ended returns as if it had been sent
C29_FailureSurfaced ==
    /\ cli.server_task = "ended" => ~cli.is_connected
    /\ (mcall.pc = "raised" /\ mcall.id # NULL) => ~cli.is_connected
    /\ mcall.pc = "returned" => ~mcall.loop_ended

(***************************************************************************)
(* SpecRegistry: a ServiceRegistry under register_method,                  *)
(* register_service, unregister_service and unregister_method calls.  svc  *)
(* holds its two tables, reglog the last call and the tables before it.    *)
(***************************************************************************)
notRegVars == <<protoVars, rlVars, mgrVars, lifeVars, loopVars, routerVars, recvVars, tokenVars, valVars, wireVars>>

ServiceNames == {"service1", "service2"}
RegistryMethods == {"test1", "ping"}
RegistryHandlers == {"h1", "h2"}
\* the RPC methods a registered service object carries
ServiceObjectMethods == {"ping"}

\* MethodInfo(name=..., handler=..., module=service_name)
ServiceMethod(name, handler, module) == [name |-> name, handler |-> handler, module |-> module]
NoMethods == [name \in {} |-> ServiceMethod("", "", "")]
EmptyRegistry == [services |-> [s \in {} |-> NoMethods], global_methods |-> NoMethods]
RegCalled(op, service, before) == [op |-> op, service |-> service, before |-> before]

\* d[key] = value
Put(d, key, value) == [k \in DOMAIN d \cup {key} |-> IF k = key THEN value ELSE d[k]]
\* d without the given keys
Without(d, keys) == [k \in DOMAIN d \ keys |-> d[k]]

RegistryInit ==
    /\ ProtoIdle /\ RLIdle /\ MgrIdle
    /\ LifeIdle /\ LoopIdle /\ RouterIdle /\ RecvIdle /\ TokenIdle /\ ValIdle /\ WireIdle
    /\ svc = EmptyRegistry
    /\ reglog = RegCalled("none", "", EmptyRegistry)

\* ServiceRegistry.list_methods(service_name)
list_methods(reg, service_name) ==
    IF service_name \in DOMAIN reg.services THEN reg.services[service_name] ELSE NoMethods

\* ServiceRegistry.register_method(name, handler, service_name)
RegRegisterMethod(name, handler, service_name) ==
    LET method_info == ServiceMethod(name, handler, service_name)
    IN  /\ svc' = [services |-> Put(svc.services, service_name,
                                    Put(list_methods(svc, service_name), name, method_info)),
                   global_methods |-> Put(svc.global_methods, name, method_info)]
        /\ reglog' = RegCalled("register_method", service_name, svc)
        /\ UNCHANGED notRegVars

\* ServiceRegistry.register_service(service_name, service_obj): the service's
\* table is started anew and the object's RPC methods are entered
RegRegisterService(service_name) ==
    LET entered == [name \in ServiceObjectMethods |-> ServiceMethod(name, "obj", service_name)]
    IN  /\ svc' = [services |-> Put(svc.services, service_name, entered),
                   global_methods |->
                       [name \in DOMAIN svc.global_methods \cup ServiceObjectMethods |->
                           IF name \in ServiceObjectMethods THEN entered[name]
                           ELSE svc.global_methods[name]]]
        /\ reglog' = RegCalled("register_service", service_name, svc)
        /\ UNCHANGED notRegVars

\* ServiceRegistry.unregister_service(service_name): every name of the
\* service's table is popped from global_methods, then the table is deleted
unregister_service(service_name) ==
    /\ svc' = IF service_name \in DOMAIN svc.services
              THEN [services |-> Without(svc.services, {service_name}),
                    global_methods |-> Without(svc.global_methods,
                                               DOMAIN svc.services[service_name])]
              ELSE svc
    /\ reglog' = RegCalled("unregister_service", service_name, svc)
    /\ UNCHANGED notRegVars

\* ServiceRegistry.unregister_method(name)
unregister_method(name) ==
    /\ svc' = IF name \in DOMAIN svc.global_methods
              THEN LET service_name == svc.global_methods[name].module
                   IN  [services |->
                            IF service_name \in DOMAIN svc.services
                            THEN Put(svc.services, service_name,
                                     Without(svc.services[service_name], {name}))
                            ELSE svc.services,
                        global_methods |-> Without(svc.global_methods, {name})]
              ELSE svc
    /\ reglog' = RegCalled("unregister_method", "", svc)
    /\ UNCHANGED notRegVars

RegRegisterMethodStep ==
    \E name \in RegistryMethods, handler \in RegistryHandlers, service_name \in ServiceNames :
        RegRegisterMethod(name, handler, service_name)
RegRegisterServiceStep == \E service_name \in ServiceNames : RegRegisterService(service_name)
RegUnregisterServiceStep == \E service_name \in ServiceNames : unregister_service(service_name)
RegUnregisterMethodStep == \E name \in RegistryMethods : unregister_method(name)

RegistryNext ==
    \/ RegRegisterMethodStep \/ RegRegisterServiceStep
    \/ RegUnregisterServiceStep \/ RegUnregisterMethodStep
SpecRegistry == RegistryInit /\ [][RegistryNext]_vars

\* the name is routed to the given MethodInfo
RoutableAs(reg, name, method_info) ==
    name \in DOMAIN reg.global_methods /\ reg.global_methods[name] = method_info

\* C30: after unregister_service(s), list_methods(s) is empty and nothing
\* registered under s is routed any more, while every method of another
\* service that was routable before is still listed and routed with the same
\* MethodInfo
C30_UnregisterFrame ==
    reglog.op = "unregister_service" =>
        LET s == reglog.service
            before == reglog.before
        IN  /\ list_methods(svc, s) = NoMethods
            /\ \A name \in DOMAIN svc.global_methods : svc.global_methods[name].module # s
            /\ \A t \in DOMAIN before.services \ {s} :
                  /\ list_methods(svc, t) = before.services[t]
                  /\ \A name \in DOMAIN before.services[t] :
                        RoutableAs(before, name, before.services[t][name])
                            => RoutableAs(svc, name, before.services[t][name])

\* C36: the flat global index is the union of the per-service tables: every
\* name of global_methods is listed by some service with the same MethodInfo,
\* and every name a service lists is in global_methods, so get_method and
\* list_methods never disagree
C36_IndexIsUnion ==
    /\ \A name \in DOMAIN svc.global_methods :
          \E s \in DOMAIN svc.services :
              /\ name \in DOMAIN svc.services[s]
              /\ svc.services[s][name] = svc.global_methods[name]
    /\ \A s \in DOMAIN svc.services :
          \A name \in DOMAIN svc.services[s] : name \in DOMAIN svc.global_methods

(***************************************************************************)
(* SpecWire: one connection as a byte stream.  The sender's send() writes  *)
(* header and payload, the bytes arrive at the reader in pieces, and the   *)
(* reader calls receive() until its first error.  SpecPoll adds a poll     *)
(* timeout that cancels a receive() which is waiting for bytes.            *)
(***************************************************************************)
notWireVars == <<protoVars, rlVars, mgrVars, lifeVars, loopVars, routerVars, recvVars, tokenVars, valVars, regVars>>

Byte == 256
MaxPolls == 2          \* poll timeouts followed on the connection

\* the length written with the lowest byte first
ToBytes_little(length) ==
    <<length % Byte, (length \div Byte) % Byte, (length \div (Byte * Byte)) % Byte,
      (length \div (Byte * Byte * Byte)) % Byte>>

\* length.to_bytes(4, byteorder='big')
ToBytes(length) ==
    <<(length \div (Byte * Byte * Byte)) % Byte, (length \div (Byte * Byte)) % Byte,
      (length \div Byte) % Byte, length % Byte>>
\* int.from_bytes(length_bytes, byteorder='big')
FromBytes(b) == ((b[1] * Byte + b[2]) * Byte + b[3]) * Byte + b[4]

Fill(n, b) == [i \in 1 .. n |-> b]
\* the payloads sent: empty, one byte, one whose first bytes read as a header,
\* one of exactly the reader's limit and one a byte longer
Payloads(buffer_size) ==
    {<<>>, <<65>>, <<0, 0, 0, 1, 65>>, Fill(Limit(buffer_size), 66),
     Fill(Limit(buffer_size) + 1, 67)}

\* what one receive() gave
Got(outcome, data) == [outcome |-> outcome, data |-> data]
\* the bytes that have arrived and are not consumed
Buffered == SubSeq(wire.bytes, rd.pos + 1, wire.arrived)
AllArrived == wire.arrived = Len(wire.bytes)

WireInit ==
    /\ \E buffer_size \in BufferSizes :
          wire = [buffer_size |-> buffer_size, bytes |-> <<>>, arrived |-> 0, eof |-> FALSE,
                  sent |-> <<>>]
    /\ rd = [pos |-> 0, got |-> <<>>, failed |-> FALSE, cancelled |-> 0]
    /\ ProtoIdle /\ RLIdle /\ MgrIdle
    /\ LifeIdle /\ LoopIdle /\ RouterIdle /\ RecvIdle /\ TokenIdle /\ ValIdle /\ RegIdle

\* send(data): the header and the data are written one after the other with
\* no suspension in between
send(data) ==
    /\ ~wire.eof /\ Len(wire.sent) < MaxStream
    /\ wire' = [wire EXCEPT !.bytes = @ \o ToBytes(Len(data)) \o data,
                            !.sent = Append(@, data)]
    /\ UNCHANGED <<rd, notWireVars>>

\* the sender closes the connection
WireClose ==
    /\ ~wire.eof
    /\ wire' = [wire EXCEPT !.eof = TRUE]
    /\ UNCHANGED <<rd, notWireVars>>

\* bytes in flight arrive in the reader's buffer: the next n of them
Arrive_n(n) ==
    /\ n > 0 /\ wire.arrived + n <= Len(wire.bytes)
    /\ wire' = [wire EXCEPT !.arrived = @ + n]
    /\ UNCHANGED <<rd, notWireVars>>

\* reader.readexactly(n) can complete: the bytes are buffered, or the stream
\* has ended before them
CanRead(n) == Len(Buffered) >= n \/ (wire.eof /\ AllArrived)

\* receive() run to its end: the header is read, the length tested, the body
\* read; IncompleteReadError gives 'Connection closed by peer'
WireReceive ==
    LET length == FromBytes(Buffered)
    IN  /\ ~rd.failed
        /\ CanRead(HeaderBytes)
        /\ IF Len(Buffered) < HeaderBytes
           THEN rd' = [rd EXCEPT !.pos = wire.arrived, !.failed = TRUE,
                                 !.got = Append(@, Got("closed", <<>>))]
           ELSE IF TooLarge(length, wire.buffer_size)
           THEN rd' = [rd EXCEPT !.pos = @ + HeaderBytes, !.failed = TRUE,
                                 !.got = Append(@, Got("too_large", <<>>))]
           ELSE /\ Len(Buffered) >= HeaderBytes + length \/ (wire.eof /\ AllArrived)
                /\ IF Len(Buffered) >= HeaderBytes + length
                   THEN rd' = [rd EXCEPT !.pos = @ + HeaderBytes + length,
                                  !.got = Append(@, Got("data",
                                             SubSeq(Buffered, HeaderBytes + 1, HeaderBytes + length)))]
                   ELSE rd' = [rd EXCEPT !.pos = wire.arrived, !.failed = TRUE,
                                         !.got = Append(@, Got("closed", <<>>))]
        /\ UNCHANGED <<wire, notWireVars>>

SendStep == \E data \in Payloads(wire.buffer_size) : send(data)
WireCloseStep == WireClose
ArriveHeaderStep == Arrive_n(HeaderBytes)
ArriveRestStep == Arrive_n(Len(wire.bytes) - wire.arrived)

WireNext == SendStep \/ WireCloseStep \/ ArriveHeaderStep \/ ArriveRestStep \/ WireReceive
SpecWire == WireInit /\ [][WireNext]_vars

\* the payloads receive() has returned, in the order returned
Returned_data == [i \in 1 .. Len(SelectSeq(rd.got, LAMBDA g : g.outcome = "data")) |->
                     SelectSeq(rd.got, LAMBDA g : g.outcome = "data")[i].data]
IsPrefix(a, b) == Len(a) <= Len(b) /\ \A i \in 1 .. Len(a) : a[i] = b[i]
WithinLimit(data) == ~TooLarge(Len(data), wire.buffer_size)

PollTimeout ==
    LET length == FromBytes(Buffered)
    IN  /\ ~rd.failed
        /\ rd.cancelled < MaxPolls
        /\ ~(wire.eof /\ AllArrived)
        /\ IF Len(Buffered) < HeaderBytes
           THEN rd' = [rd EXCEPT !.cancelled = @ + 1]
           ELSE /\ ~TooLarge(length, wire.buffer_size)
                /\ Len(Buffered) < HeaderBytes + length
                /\ rd' = [rd EXCEPT !.cancelled = @ + 1, !.pos = @ + HeaderBytes]
        /\ UNCHANGED <<wire, notWireVars>>

PollNext == WireNext \/ PollTimeout
SpecPoll == WireInit /\ [][PollNext]_vars

ResponsesFor(id) == {m \in CallInbound : ~Has(m, "method") /\ Get(m, "id") = id}
\* process_message for one more inbound message in the current state
Processed(m) == process_message(methods, middleware, pending_requests, calls, m)

\* C32: a response whose id is not in the pending-call table is ignored
\* (process_message returns null, the table and every future stay as they
\* are), and a response whose id is in the table resolves the call of that
\* id, with null returned, and leaves every other call and entry untouched
C32_ResponseFrame ==
    \A id \in ResponseIds : \A m \in ResponsesFor(id) :
        LET r == Processed(m)
        IN  /\ id \notin DOMAIN pending_requests =>
                  r.response = NoResponse /\ r.pend = pending_requests /\ r.cs = calls
            /\ id \in DOMAIN pending_requests =>
                  LET c == pending_requests[id]
                  IN  /\ r.response = NoResponse
                      /\ r.cs[c].fut = (IF Has(m, "error") THEN "exception" ELSE "result")
                      /\ \A d \in Calls \ {c} : r.cs[d] = calls[d]
                      /\ r.pend = Pop(pending_requests, id)

\* C35: a response for a call whose timeout has fired, whether or not the
\* caller has resumed and removed the entry yet, is handled like one for an
\* unknown id: process_message returns null and no future changes
C35_LateResponseIgnored ==
    \A c \in Calls :
        calls[c].timed_out =>
            \A m \in ResponsesFor(calls[c].id) :
                Processed(m).response = NoResponse /\ Processed(m).cs = calls
====
